---------------------------- MODULE Spec2Model ----------------------------
(***************************************************************************)
(* Graph Algorithm Engine of networksim (src/App.tsx, lines 987-2062).     *)
(* Every algorithm entry point is a pure function of a graph snapshot; it  *)
(* is written here as an operator that computes what the code computes,    *)
(* loop by loop, and an action applies it to the graph held in the state.  *)
(***************************************************************************)
EXTENDS Integers, Sequences, FiniteSets, TLC

\* one call of an entry point: the graph it is given, its parameters, which entry
\* point ran and what it returned
VARIABLES graph, startId, endId, ran, result

\* the state of the App component (src/App.tsx:271-290) that its handlers read to
\* decide the graph and the stored result; computedFrom, edits and runs are history:
\* the graph the stored result was computed from, and how often the user has edited
\* the graph and started a run
VARIABLES isInitialized, startNodeId, endNodeId, finalResult, computedFrom, edits, runs

\* the playback state of the App component (src/App.tsx:289-290)
VARIABLES stepIndex, isPlaying

playVars == <<stepIndex, isPlaying>>

appVars ==
    <<isInitialized, startNodeId, endNodeId, finalResult, computedFrom, edits, runs,
      playVars>>

vars == <<graph, startId, endId, ran, result, appVars>>

(***************************************************************************)
(* Bounds of the model and the input domains built from them.              *)
(***************************************************************************)
MaxLinks == 3

\* graph.nodes, in array order (only the ids matter to the engine)
NodeIds == <<"A", "B", "C">>

\* JS null / undefined for an id
Null == "null"

\* JS Infinity; it never enters an addition in the modelled code paths
Infinity == 1000000

\* "no algorithm has run yet" (finalResult is null)
NoResult == [logs |-> <<>>]

\* finalResult === null
NullResult == [null |-> TRUE]

\* what the caller is left with when a call throws instead of returning:
\* graph.nodes[0].id is a TypeError when graph.nodes is empty
Thrown == [thrown |-> "TypeError"]

Range(s) == {s[i] : i \in 1..Len(s)}

InSeq(x, s) == \E i \in 1..Len(s) : s[i] = x

NoDup(s) == \A i, j \in 1..Len(s) : s[i] = s[j] => i = j

SeqsUpTo(S, n) == UNION {[1..k -> S] : k \in 0..n}

Pairs == {<<a, b>> : a \in Range(NodeIds), b \in Range(NodeIds)}

\* links whose weight plays no part (traversal, Eulerian walks, two-colouring)
PlainLinks == {[source |-> p[1], target |-> p[2], weight |-> 1] : p \in Pairs}

PlainGraphs ==
    {[nodes |-> NodeIds, links |-> ls, isDirected |-> d] :
        ls \in SeqsUpTo(PlainLinks, MaxLinks), d \in BOOLEAN}

IsProperPair(p) == p[1] # p[2]

\* the ordered pairs of distinct node ids, in a fixed order: the editor joins two
\* different nodes and refuses a second link on the same ordered pair
PairSeq ==
    SelectSeq([k \in 1..(Len(NodeIds) * Len(NodeIds)) |->
                  <<NodeIds[((k - 1) \div Len(NodeIds)) + 1],
                    NodeIds[((k - 1) % Len(NodeIds)) + 1]>>],
              IsProperPair)

RECURSIVE SortedSeqOf(_)
\* the elements of a finite set of integers, ascending
SortedSeqOf(S) ==
    IF S = {} THEN <<>>
    ELSE LET m == CHOOSE x \in S : \A y \in S : x <= y
         IN  <<m>> \o SortedSeqOf(S \ {m})

\* link weights of the cost-based algorithms
Weights == {-1, 1, 3}

\* link lists with at most MaxLinks links, no ordered pair twice, a weight each
WeightedLinkLists ==
    UNION {
        {[k \in 1..Len(SortedSeqOf(I)) |->
             [source |-> PairSeq[SortedSeqOf(I)[k]][1],
              target |-> PairSeq[SortedSeqOf(I)[k]][2],
              weight |-> w[SortedSeqOf(I)[k]]]] : w \in [I -> Weights]} :
        I \in {J \in SUBSET (1..Len(PairSeq)) : Cardinality(J) <= MaxLinks}}

WeightedGraphs ==
    {[nodes |-> NodeIds, links |-> ls, isDirected |-> d] :
        ls \in WeightedLinkLists, d \in BOOLEAN}

\* the graphs the Eulerian algorithms are run on have a fourth node, so that an
\* undirected graph can have four nodes of odd degree
EulerNodeIds == <<"A", "B", "C", "D">>

EulerLinks ==
    {[source |-> p[1], target |-> p[2], weight |-> 1] :
        p \in {q \in Range(EulerNodeIds) \X Range(EulerNodeIds) : q[1] # q[2]}}

EulerGraphs ==
    {[nodes |-> EulerNodeIds, links |-> ls, isDirected |-> d] :
        ls \in SeqsUpTo(EulerLinks, MaxLinks), d \in BOOLEAN}

\* weight and capacity of a link of a flow network: without a capacity, with a
\* capacity of 0, and with capacities above and below the weight
FlowAttrs ==
    {[weight |-> 1], [weight |-> 2, capacity |-> 0],
     [weight |-> 1, capacity |-> 2], [weight |-> 3, capacity |-> 1]}

FlowLinkLists ==
    UNION {
        {[k \in 1..Len(SortedSeqOf(I)) |->
             [source |-> PairSeq[SortedSeqOf(I)[k]][1],
              target |-> PairSeq[SortedSeqOf(I)[k]][2]] @@ a[SortedSeqOf(I)[k]]] :
           a \in [I -> FlowAttrs]} :
        I \in {J \in SUBSET (1..Len(PairSeq)) : Cardinality(J) <= MaxLinks}}

FlowGraphs ==
    {[nodes |-> NodeIds, links |-> ls, isDirected |-> d] :
        ls \in FlowLinkLists, d \in BOOLEAN}

\* the example graph: A-B (weight 1, capacity 5), B-C (2, 3), A-C (4, 1), each
\* link stored in either orientation, the links and the nodes in any order
ExampleLinks ==
    UNION {{[source |-> c[1], target |-> c[2], weight |-> c[3], capacity |-> c[4]],
            [source |-> c[2], target |-> c[1], weight |-> c[3], capacity |-> c[4]]} :
           c \in {<<"A", "B", 1, 5>>, <<"B", "C", 2, 3>>, <<"A", "C", 4, 1>>}}

ExampleGraphs ==
    {[nodes |-> ns, links |-> ls, isDirected |-> FALSE] :
        ns \in {p \in [1..3 -> Range(NodeIds)] : \A i, j \in 1..3 : p[i] = p[j] => i = j},
        ls \in {l \in [1..3 -> ExampleLinks] :
                  \A i, j \in 1..3 :
                     {l[i].source, l[i].target} = {l[j].source, l[j].target} => i = j}}

(***************************************************************************)
(* Helpers of the engine.                                                  *)
(***************************************************************************)
NodeSet(g) == Range(g.nodes)

\* the capacity of a link taken from its weight alone
LinkCapacityFromWeight(l) == l.weight

\* l.capacity || l.weight : an absent capacity and a capacity of 0 are both falsy
LinkCapacity(l) ==
    IF "capacity" \in DOMAIN l /\ l.capacity # 0 THEN l.capacity ELSE l.weight

RECURSIVE AdjEntries(_, _, _)
AdjEntries(g, n, i) ==
    IF i > Len(g.links) THEN <<>>
    ELSE LET l == g.links[i]
             e(x) == [node |-> x, weight |-> l.weight, capacity |-> LinkCapacity(l)]
         IN  (IF l.source = n THEN <<e(l.target)>> ELSE <<>>)
             \o (IF ~g.isDirected /\ l.target = n THEN <<e(l.source)>> ELSE <<>>)
             \o AdjEntries(g, n, i + 1)

\* getAdjacencyList without the reverse entries of an undirected graph
getAdjacencyListForwardOnly(g) ==
    [n \in NodeSet(g) |-> AdjEntries([g EXCEPT !.isDirected = TRUE], n, 1)]

\* getAdjacencyList with reverse entries on a directed graph too
getAdjacencyListBothWays(g) ==
    [n \in NodeSet(g) |-> AdjEntries([g EXCEPT !.isDirected = FALSE], n, 1)]

getAdjacencyList(g) == [n \in NodeSet(g) |-> AdjEntries(g, n, 1)]

Reverse(s) == [i \in 1..Len(s) |-> s[Len(s) + 1 - i]]

(***************************************************************************)
(* runBFS                                                                  *)
(***************************************************************************)
RECURSIVE BFSNeighbors(_, _, _, _)
BFSNeighbors(adj, u, i, st) ==
    IF i > Len(adj[u]) THEN st
    ELSE LET nb == adj[u][i] IN
         IF nb.node \notin st.visitedSet
         THEN LET te == Append(st.traversedEdges,
                               [source |-> u, target |-> nb.node, weight |-> nb.weight])
                  lg == <<"bfs.forward", nb.node>>
              IN  BFSNeighbors(adj, u, i + 1,
                    [st EXCEPT !.visitedSet = @ \cup {nb.node},
                               !.queue = Append(@, nb.node),
                               !.traversedEdges = te,
                               !.logs = Append(@, lg),
                               !.steps = Append(@,
                                   [log |-> lg, visited |-> st.visited,
                                    currentNodeId |-> u, traversedEdges |-> te,
                                    currentLinkId |-> [source |-> u, target |-> nb.node]])])
         ELSE BFSNeighbors(adj, u, i + 1, st)

RECURSIVE BFSLoopStaleVisit(_, _)
\* BFSLoop whose 'visit' step carries the visited list from before the push
BFSLoopStaleVisit(adj, st) ==
    IF st.queue = <<>> THEN st
    ELSE LET u == Head(st.queue)
             vis == IF InSeq(u, st.visited) THEN st.visited ELSE Append(st.visited, u)
             lg == <<"bfs.visit", u>>
             st1 == [st EXCEPT !.queue = Tail(@),
                               !.visited = vis,
                               !.logs = Append(@, lg),
                               !.steps = Append(@,
                                   [log |-> lg, visited |-> st.visited,
                                    currentNodeId |-> u,
                                    traversedEdges |-> st.traversedEdges])]
         IN  BFSLoopStaleVisit(adj, BFSNeighbors(adj, u, 1, st1))

RECURSIVE BFSLoop(_, _)
BFSLoop(adj, st) ==
    IF st.queue = <<>> THEN st
    ELSE LET u == Head(st.queue)
             vis == IF InSeq(u, st.visited) THEN st.visited ELSE Append(st.visited, u)
             lg == <<"bfs.visit", u>>
             st1 == [st EXCEPT !.queue = Tail(@),
                               !.visited = vis,
                               !.logs = Append(@, lg),
                               !.steps = Append(@,
                                   [log |-> lg, visited |-> vis, currentNodeId |-> u,
                                    traversedEdges |-> st.traversedEdges])]
         IN  BFSLoop(adj, BFSNeighbors(adj, u, 1, st1))

runBFS(g, s) ==
    LET lg == <<"bfs.init", s>>
        fin == BFSLoop(getAdjacencyList(g),
                 [queue |-> <<s>>, visited |-> <<>>, visitedSet |-> {s},
                  traversedEdges |-> <<>>, logs |-> <<lg>>,
                  steps |-> <<[log |-> lg, visited |-> <<>>, currentNodeId |-> s]>>])
    IN  [visited |-> fin.visited, logs |-> fin.logs,
         traversedEdges |-> fin.traversedEdges, steps |-> fin.steps]

(***************************************************************************)
(* runDFS                                                                  *)
(***************************************************************************)
RECURSIVE DFSPush(_, _, _, _)
\* neighbors.forEach over the reversed adjacency entries of u
DFSPush(nbs, u, i, st) ==
    IF i > Len(nbs) THEN st
    ELSE IF nbs[i].node \notin st.visitedSet
         THEN DFSPush(nbs, u, i + 1,
                      [st EXCEPT !.stack = Append(@, [id |-> nbs[i].node, from |-> u])])
         ELSE DFSPush(nbs, u, i + 1, st)

RECURSIVE DFSLoop(_, _)
DFSLoop(adj, st) ==
    IF st.stack = <<>> THEN st
    ELSE LET top == st.stack[Len(st.stack)]
             u == top.id
             from == top.from
             popped == [st EXCEPT !.stack = SubSeq(@, 1, Len(@) - 1)]
         IN  IF u \in st.visitedSet THEN DFSLoop(adj, popped)
             ELSE LET vis == Append(st.visited, u)
                      te == IF from # Null
                            THEN Append(st.traversedEdges,
                                        [source |-> from, target |-> u, weight |-> 0])
                            ELSE st.traversedEdges
                      lg == <<"dfs.visit", u>>
                      st1 == [popped EXCEPT
                                !.visitedSet = @ \cup {u},
                                !.visited = vis,
                                !.traversedEdges = te,
                                !.logs = Append(@, lg),
                                !.steps = Append(@,
                                    [log |-> lg, visited |-> vis, currentNodeId |-> u,
                                     traversedEdges |-> te,
                                     currentLinkId |->
                                        IF from # Null
                                        THEN [source |-> from, target |-> u]
                                        ELSE [source |-> Null, target |-> Null]])]
                  IN  DFSLoop(adj, DFSPush(Reverse(adj[u]), u, 1, st1))

runDFS(g, s) ==
    LET lg == <<"dfs.init", s>>
        fin == DFSLoop(getAdjacencyList(g),
                 [stack |-> <<[id |-> s, from |-> Null]>>, visited |-> <<>>,
                  visitedSet |-> {}, traversedEdges |-> <<>>, logs |-> <<lg>>,
                  steps |-> <<[log |-> lg, visited |-> <<>>, currentNodeId |-> s]>>])
    IN  [visited |-> fin.visited, logs |-> fin.logs,
         traversedEdges |-> fin.traversedEdges, steps |-> fin.steps]

(***************************************************************************)
(* Helpers of the shortest-path algorithms.                                *)
(***************************************************************************)
RECURSIVE ReconstructWalk(_, _, _, _)
\* the while loop of reconstructPath: path.unshift(current) until null or a repeat
ReconstructWalk(previous, current, seen, path) ==
    IF current = Null \/ current \in seen THEN path
    ELSE ReconstructWalk(previous, previous[current], seen \cup {current},
                         <<current>> \o path)

reconstructPath(previous, e) == ReconstructWalk(previous, e, {}, <<>>)

\* graph.links.find(...): index of the first link that joins p to n, 0 when none
FindLink(g, p, n) ==
    LET hits == {i \in 1..Len(g.links) :
                    \/ g.links[i].source = p /\ g.links[i].target = n
                    \/ ~g.isDirected /\ g.links[i].source = n /\ g.links[i].target = p}
    IN  IF hits = {} THEN 0 ELSE CHOOSE i \in hits : \A j \in hits : i <= j

RECURSIVE EdgesFromPrevious(_, _, _)
EdgesFromPrevious(g, previous, k) ==
    IF k > Len(g.nodes) THEN <<>>
    ELSE LET n == g.nodes[k]
             p == previous[n]
             i == FindLink(g, p, n)
         IN  (IF p # Null
              THEN <<[source |-> p, target |-> n,
                      weight |-> IF i = 0 THEN 0 ELSE g.links[i].weight]>>
              ELSE <<>>)
             \o EdgesFromPrevious(g, previous, k + 1)

getEdgesFromPrevious(g, previous) == EdgesFromPrevious(g, previous, 1)

\* the validation left out: no link is ever taken to have a negative weight
hasNegativeWeightIgnored(g) == FALSE

\* graph.links.some(l => l.weight < 0)
hasNegativeWeight(g) == \E i \in 1..Len(g.links) : g.links[i].weight < 0

RECURSIVE InsertByKey(_, _, _)
\* x goes behind every element whose key is not greater (the sort is stable)
InsertByKey(x, s, key) ==
    IF s = <<>> THEN <<x>>
    ELSE IF key[x] < key[Head(s)] THEN <<x>> \o s
         ELSE <<Head(s)>> \o InsertByKey(x, Tail(s), key)

\* the sort left out: the queue stays in the order it was filled
QueueAsFilled(s, key) == s

RECURSIVE SortByKey(_, _)
\* queue.sort((a, b) => distances[a] - distances[b]); Infinity - Infinity is NaN,
\* which the sort takes as "equal"
SortByKey(s, key) ==
    IF s = <<>> THEN <<>>
    ELSE InsertByKey(s[Len(s)], SortByKey(SubSeq(s, 1, Len(s) - 1), key), key)

\* Object.keys(distances).filter(k => distances[k] !== Infinity)
RECURSIVE FiniteKeys(_, _, _)
FiniteKeys(g, distances, k) ==
    IF k > Len(g.nodes) THEN <<>>
    ELSE (IF distances[g.nodes[k]] # Infinity THEN <<g.nodes[k]>> ELSE <<>>)
         \o FiniteKeys(g, distances, k + 1)

(***************************************************************************)
(* runDijkstra                                                             *)
(***************************************************************************)
RECURSIVE DijkstraRelax(_, _, _, _, _)
\* adj[u].forEach(neighbor => ...)
DijkstraRelax(g, nbs, u, i, st) ==
    IF i > Len(nbs) THEN st
    ELSE LET nb == nbs[i]
             alt == st.distances[u] + nb.weight
         IN  IF alt < st.distances[nb.node]
             THEN LET prev == [st.previous EXCEPT ![nb.node] = u]
                      lg == <<"dijkstra.update", nb.node, u, alt>>
                  IN  DijkstraRelax(g, nbs, u, i + 1,
                        [st EXCEPT !.distances[nb.node] = alt,
                                   !.previous = prev,
                                   !.logs = Append(@, lg),
                                   !.steps = Append(@,
                                      [log |-> lg, visited |-> st.visited,
                                       currentNodeId |-> u,
                                       currentLinkId |-> [source |-> u, target |-> nb.node],
                                       traversedEdges |-> getEdgesFromPrevious(g, prev)])])
             ELSE DijkstraRelax(g, nbs, u, i + 1, st)

RECURSIVE DijkstraLoop(_, _, _)
DijkstraLoop(g, e, st) ==
    IF st.queue = <<>> THEN st
    ELSE LET sorted == SortByKey(st.queue, st.distances)
             u == Head(sorted)
         IN  IF st.distances[u] = Infinity THEN [st EXCEPT !.queue = Tail(sorted)]
             ELSE LET vis == Append(st.visited, u)
                      lg == <<"dijkstra.visit", u, st.distances[u]>>
                      st1 == [st EXCEPT
                                !.queue = Tail(sorted),
                                !.visited = vis,
                                !.logs = Append(@, lg),
                                !.steps = Append(@,
                                   [log |-> lg, visited |-> vis, currentNodeId |-> u,
                                    traversedEdges |->
                                        getEdgesFromPrevious(g, st.previous)])]
                  IN  IF e # Null /\ u = e
                      THEN [st1 EXCEPT !.logs = Append(@, <<"dijkstra.reached", e>>)]
                      ELSE DijkstraLoop(g, e,
                             DijkstraRelax(g, getAdjacencyList(g)[u], u, 1, st1))

\* the scratch state of runDijkstra when its main loop has ended
DijkstraFinal(g, s, e) ==
    LET lg == <<"dijkstra.init", s, e>>
    IN  DijkstraLoop(g, e,
          [distances |-> [n \in NodeSet(g) |-> IF n = s THEN 0 ELSE Infinity],
           previous |-> [n \in NodeSet(g) |-> Null],
           queue |-> g.nodes, visited |-> <<>>, logs |-> <<lg>>,
           steps |-> <<[log |-> lg, visited |-> <<>>, currentNodeId |-> s]>>])

RECURSIVE DistanceLogs(_, _, _, _)
DistanceLogs(g, distances, tag, k) ==
    IF k > Len(g.nodes) THEN <<>>
    ELSE (IF distances[g.nodes[k]] # Infinity
          THEN <<<<tag, g.nodes[k], distances[g.nodes[k]]>>>> ELSE <<>>)
         \o DistanceLogs(g, distances, tag, k + 1)

runDijkstra(g, s, e) ==
    IF hasNegativeWeight(g)
    THEN [logs |-> <<<<"dijkstra.error.negative">>>>,
          steps |-> <<[log |-> <<"dijkstra.error.negative">>]>>]
    ELSE LET st == DijkstraFinal(g, s, e) IN
         IF e # Null
         THEN IF st.distances[e] = Infinity
              THEN [logs |-> Append(st.logs, <<"dijkstra.unreachable">>),
                    visited |-> st.visited, steps |-> st.steps]
              ELSE LET path == reconstructPath(st.previous, e)
                       lg == <<"dijkstra.success", path, st.distances[e]>>
                   IN  [path |-> path, visited |-> st.visited,
                        logs |-> Append(st.logs, lg),
                        steps |-> Append(st.steps,
                                    [log |-> lg, visited |-> st.visited, path |-> path])]
         ELSE LET mstLinks == getEdgesFromPrevious(g, st.previous)
                  unreachable == {n \in NodeSet(g) : st.distances[n] = Infinity}
              IN  [mstLinks |-> mstLinks, visited |-> st.visited,
                   logs |-> st.logs \o <<<<"dijkstra.table">>>>
                            \o DistanceLogs(g, st.distances, "dijkstra.net", 1)
                            \o (IF unreachable # {}
                                THEN <<<<"dijkstra.warning.unreachable">>>> ELSE <<>>),
                   steps |-> Append(st.steps,
                               [log |-> <<"dijkstra.done">>, visited |-> st.visited,
                                mstLinks |-> mstLinks])]

(***************************************************************************)
(* runBellmanFord                                                          *)
(***************************************************************************)
RECURSIVE AllEdgesFrom(_, _)
AllEdgesFrom(g, i) ==
    IF i > Len(g.links) THEN <<>>
    ELSE LET l == g.links[i] IN
         <<[u |-> l.source, v |-> l.target, w |-> l.weight]>>
         \o (IF ~g.isDirected
             THEN <<[u |-> l.target, v |-> l.source, w |-> l.weight]>> ELSE <<>>)
         \o AllEdgesFrom(g, i + 1)

allEdges(g) == AllEdgesFrom(g, 1)

\* distances[edge.u] !== Infinity && distances[edge.u] + edge.w < distances[edge.v]
\* the relaxation test with <= in place of <
RelaxableOrEqual(distances, edge) ==
    /\ distances[edge.u] # Infinity
    /\ distances[edge.u] + edge.w <= distances[edge.v]

Relaxable(distances, edge) ==
    /\ distances[edge.u] # Infinity
    /\ distances[edge.u] + edge.w < distances[edge.v]

RECURSIVE BFRelaxAll(_, _, _, _)
\* one pass of "for (const edge of allEdges)" inside a round
BFRelaxAll(g, edges, i, st) ==
    IF i > Len(edges) THEN st
    ELSE LET edge == edges[i] IN
         IF Relaxable(st.distances, edge)
         THEN LET d == st.distances[edge.u] + edge.w
                  dist == [st.distances EXCEPT ![edge.v] = d]
                  prev == [st.previous EXCEPT ![edge.v] = edge.u]
                  lg == <<"bf.update", edge.v, edge.u, d>>
              IN  BFRelaxAll(g, edges, i + 1,
                    [st EXCEPT !.distances = dist,
                               !.previous = prev,
                               !.somethingChanged = TRUE,
                               !.logs = Append(@, lg),
                               !.steps = Append(@,
                                  [log |-> lg, currentNodeId |-> edge.v,
                                   currentLinkId |-> [source |-> edge.u, target |-> edge.v],
                                   visited |-> FiniteKeys(g, dist, 1),
                                   traversedEdges |-> getEdgesFromPrevious(g, prev)])])
         ELSE BFRelaxAll(g, edges, i + 1, st)

RECURSIVE BFRounds(_, _, _, _)
\* for (let i = 1; i < V; i++) { ... if (!somethingChanged) break; }
BFRounds(g, edges, i, st) ==
    IF i >= Len(g.nodes) THEN st
    ELSE LET lg == <<"bf.round", i>>
             st1 == [st EXCEPT
                       !.somethingChanged = FALSE,
                       !.logs = Append(@, lg),
                       !.steps = Append(@,
                          [log |-> lg, visited |-> FiniteKeys(g, st.distances, 1),
                           traversedEdges |-> getEdgesFromPrevious(g, st.previous)])]
             st2 == BFRelaxAll(g, edges, 1, st1)
         IN  IF ~st2.somethingChanged
             THEN [st2 EXCEPT !.logs = Append(@, <<"bf.converged">>)]
             ELSE BFRounds(g, edges, i + 1, st2)

\* the scratch state of runBellmanFord when its rounds have ended
BellmanFordFinal(g, s) ==
    LET lg == <<"bf.init", s>>
    IN  BFRounds(g, allEdges(g), 1,
          [distances |-> [n \in NodeSet(g) |-> IF n = s THEN 0 ELSE Infinity],
           previous |-> [n \in NodeSet(g) |-> Null],
           somethingChanged |-> FALSE, logs |-> <<lg>>,
           steps |-> <<[log |-> lg, currentNodeId |-> s]>>])

\* runBellmanFord without its extra pass
NoExtraPass(edges, distances) == 0

\* index of the first edge the extra pass can still relax, 0 when none
NegativeCycleEdge(edges, distances) ==
    LET hits == {i \in 1..Len(edges) : Relaxable(distances, edges[i])}
    IN  IF hits = {} THEN 0 ELSE CHOOSE i \in hits : \A j \in hits : i <= j

runBellmanFord(g, s, e) ==
    IF ~g.isDirected /\ hasNegativeWeight(g)
    THEN [logs |-> <<<<"bf.error.negative">>>>,
          steps |-> <<[log |-> <<"bf.error.negative">>]>>]
    ELSE LET st == BellmanFordFinal(g, s)
             edges == allEdges(g)
             logs1 == Append(st.logs, <<"bf.check">>)
             c == NegativeCycleEdge(edges, st.distances)
         IN  IF c # 0
             THEN [logs |-> Append(logs1, <<"bf.negativeCycle">>),
                   steps |-> Append(st.steps,
                               [log |-> <<"bf.negativeCycle">>,
                                currentLinkId |->
                                    [source |-> edges[c].u, target |-> edges[c].v]])]
             ELSE IF e # Null
             THEN IF st.distances[e] = Infinity
                  THEN [logs |-> Append(logs1, <<"bf.unreachable">>), steps |-> st.steps]
                  ELSE LET path == reconstructPath(st.previous, e)
                           lg == <<"bf.success", path, st.distances[e]>>
                       IN  [path |-> path, visited |-> path,
                            logs |-> Append(logs1, lg),
                            steps |-> Append(st.steps,
                                        [log |-> lg, path |-> path, visited |-> path])]
             ELSE LET mstLinks == getEdgesFromPrevious(g, st.previous)
                  IN  [mstLinks |-> mstLinks,
                       logs |-> logs1 \o DistanceLogs(g, st.distances, "bf.distance", 1),
                       steps |-> Append(st.steps,
                                   [log |-> <<"bf.done">>, mstLinks |-> mstLinks])]

(***************************************************************************)
(* runPrim                                                                 *)
(***************************************************************************)
\* a parent that was never assigned (only parent[startNode] is set to null)
Undefined == "undefined"

\* the scan "if (!mstSet.has(n.id) && key[n.id] < min)": index of the first node,
\* in array order, of least key among those outside mstSet; 0 stands for u = -1
PrimSelect(g, st) ==
    LET cand == {k \in 1..Len(g.nodes) :
                    g.nodes[k] \notin st.mstSet /\ st.key[g.nodes[k]] < Infinity}
    IN  IF cand = {} THEN 0
        ELSE CHOOSE k \in cand :
                \A j \in cand :
                    \/ st.key[g.nodes[k]] < st.key[g.nodes[j]]
                    \/ st.key[g.nodes[k]] = st.key[g.nodes[j]] /\ k <= j

RECURSIVE PrimRelax(_, _, _, _)
\* adj[uId].forEach(v => ...)
PrimRelax(nbs, u, i, st) ==
    IF i > Len(nbs) THEN st
    ELSE LET v == nbs[i] IN
         IF v.node \notin st.mstSet /\ v.weight < st.key[v.node]
         THEN PrimRelax(nbs, u, i + 1,
                        [st EXCEPT !.parent[v.node] = u, !.key[v.node] = v.weight])
         ELSE PrimRelax(nbs, u, i + 1, st)

RECURSIVE PrimLoop(_, _, _, _)
\* for (let i = 0; i < graph.nodes.length; i++) { ... if (u === -1) break; ... }
PrimLoop(g, adj, i, st) ==
    IF i >= Len(g.nodes) THEN st
    ELSE LET u == PrimSelect(g, st) IN
         IF u = 0 THEN st
         ELSE LET uId == g.nodes[u]
                  vis == Append(st.visitedNodes, uId)
                  st1 == IF st.parent[uId] # Null
                         THEN LET links == Append(st.mstLinks,
                                             [source |-> st.parent[uId], target |-> uId,
                                              weight |-> st.key[uId]])
                                  lg == <<"prim.add", st.parent[uId], uId, st.key[uId]>>
                              IN  [st EXCEPT
                                     !.mstSet = @ \cup {uId},
                                     !.visitedNodes = vis,
                                     !.mstLinks = links,
                                     !.totalCost = @ + st.key[uId],
                                     !.logs = Append(@, lg),
                                     !.steps = Append(@,
                                        [log |-> lg, mstLinks |-> links, visited |-> vis,
                                         currentNodeId |-> uId,
                                         currentLinkId |->
                                            [source |-> Null, target |-> Null]])]
                         ELSE LET lg == <<"prim.active", uId>>
                              IN  [st EXCEPT
                                     !.mstSet = @ \cup {uId},
                                     !.visitedNodes = vis,
                                     !.logs = Append(@, lg),
                                     !.steps = Append(@,
                                        [log |-> lg, mstLinks |-> st.mstLinks,
                                         visited |-> vis, currentNodeId |-> uId])]
              IN  PrimLoop(g, adj, i + 1, PrimRelax(adj[uId], uId, 1, st1))

runPrim(g) ==
    IF g.isDirected THEN [logs |-> <<<<"prim.error.directed">>>>]
    ELSE IF Len(g.nodes) = 0 THEN Thrown
    ELSE LET startNode == g.nodes[1]
             lg == <<"prim.init", startNode>>
             st == PrimLoop(g, getAdjacencyList(g), 0,
                     [parent |-> [n \in NodeSet(g) |->
                                     IF n = startNode THEN Null ELSE Undefined],
                      key |-> [n \in NodeSet(g) |-> IF n = startNode THEN 0 ELSE Infinity],
                      mstSet |-> {}, visitedNodes |-> <<>>, mstLinks |-> <<>>,
                      totalCost |-> 0, logs |-> <<lg>>,
                      steps |-> <<[log |-> lg, mstLinks |-> <<>>,
                                   currentNodeId |-> startNode, visited |-> <<>>]>>])
             finalLog == <<"prim.total", st.totalCost>>
         IN  [mstLinks |-> st.mstLinks,
              logs |-> st.logs
                       \o <<IF Cardinality(st.mstSet) < Len(g.nodes)
                            THEN <<"prim.warning.disconnected">> ELSE <<"prim.complete">>>>
                       \o <<finalLog>>,
              steps |-> Append(st.steps,
                          [log |-> finalLog, mstLinks |-> st.mstLinks,
                           visited |-> st.visitedNodes]),
              visited |-> st.visitedNodes]

(***************************************************************************)
(* runKruskal                                                              *)
(***************************************************************************)
RECURSIVE InsertByWeight(_, _)
InsertByWeight(l, s) ==
    IF s = <<>> THEN <<l>>
    ELSE IF l.weight < Head(s).weight THEN <<l>> \o s
         ELSE <<Head(s)>> \o InsertByWeight(l, Tail(s))

\* runKruskal taking the links in the order of graph.links
Unsorted(s) == s

RECURSIVE SortByWeight(_)
\* [...graph.links].sort((a, b) => a.weight - b.weight), a stable sort
SortByWeight(s) ==
    IF s = <<>> THEN <<>>
    ELSE InsertByWeight(s[Len(s)], SortByWeight(SubSeq(s, 1, Len(s) - 1)))

\* union-find without the unions: every node stays its own root
findOwnRoot(parent, i) == i

RECURSIVE find(_, _)
find(parent, i) == IF parent[i] = i THEN i ELSE find(parent, parent[i])

\* visitedSet.add(x): a Set keeps its members in insertion order
AddOnce(s, x) == IF InSeq(x, s) THEN s ELSE Append(s, x)

RECURSIVE KruskalLoop(_, _, _)
\* for (const link of sortedLinks) { ... }
KruskalLoop(sortedLinks, i, st) ==
    IF i > Len(sortedLinks) THEN st
    ELSE LET link == sortedLinks[i]
             checkLog == <<"kruskal.check", link.source, link.target, link.weight>>
             st1 == [st EXCEPT
                       !.logs = Append(@, checkLog),
                       !.steps = Append(@,
                          [log |-> checkLog, mstLinks |-> st.mstLinks,
                           visited |-> st.visited,
                           currentLinkId |->
                              [source |-> link.source, target |-> link.target]])]
             rootI == find(st.parent, link.source)
             rootJ == find(st.parent, link.target)
         IN  IF rootI # rootJ
             THEN LET links == Append(st.mstLinks, link)
                      vis == AddOnce(AddOnce(st.visited, link.source), link.target)
                      lg == <<"kruskal.accept">>
                  IN  KruskalLoop(sortedLinks, i + 1,
                        [st1 EXCEPT
                           !.parent[rootI] = rootJ,
                           !.mstLinks = links,
                           !.totalCost = @ + link.weight,
                           !.edgesCount = @ + 1,
                           !.visited = vis,
                           !.logs = Append(@, lg),
                           !.steps = Append(@,
                              [log |-> lg, mstLinks |-> links, visited |-> vis,
                               currentLinkId |-> [source |-> Null, target |-> Null]])])
             ELSE LET lg == <<"kruskal.reject">>
                  IN  KruskalLoop(sortedLinks, i + 1,
                        [st1 EXCEPT
                           !.logs = Append(@, lg),
                           !.steps = Append(@,
                              [log |-> lg, mstLinks |-> st.mstLinks,
                               visited |-> st.visited,
                               currentLinkId |-> [source |-> Null, target |-> Null]])])

runKruskal(g) ==
    IF g.isDirected THEN [logs |-> <<<<"kruskal.error.directed">>>>]
    ELSE LET lg == <<"kruskal.init">>
             st == KruskalLoop(SortByWeight(g.links), 1,
                     [parent |-> [n \in NodeSet(g) |-> n],
                      mstLinks |-> <<>>, visited |-> <<>>, totalCost |-> 0,
                      edgesCount |-> 0, logs |-> <<lg>>,
                      steps |-> <<[log |-> lg, mstLinks |-> <<>>, visited |-> <<>>]>>])
             finalLog == <<"kruskal.total", st.totalCost>>
         IN  [mstLinks |-> st.mstLinks,
              logs |-> st.logs
                       \o <<IF st.edgesCount < Len(g.nodes) - 1
                            THEN <<"kruskal.note.forest">> ELSE <<"kruskal.complete">>>>
                       \o <<finalLog>>,
              steps |-> Append(st.steps,
                          [log |-> finalLog, mstLinks |-> st.mstLinks,
                           visited |-> st.visited]),
              visited |-> st.visited]

(***************************************************************************)
(* runFordFulkerson.  rGraph and flowDetails are keyed by `${u}->${v}`,    *)
(* written here as the pair <<u, v>>; a key that was never assigned is     *)
(* outside the DOMAIN.                                                     *)
(***************************************************************************)
SetKey(f, k, v) == IF k \in DOMAIN f THEN [f EXCEPT ![k] = v] ELSE (k :> v) @@ f

RECURSIVE InitResidual(_, _, _)
\* graph.links.forEach(l => { rGraph[...] = l.capacity || l.weight; ... })
InitResidual(g, i, r) ==
    IF i > Len(g.links) THEN r
    ELSE LET l == g.links[i]
             fwd == <<l.source, l.target>>
             bwd == <<l.target, l.source>>
             r1 == SetKey(r, fwd, LinkCapacity(l))
             r2 == IF ~g.isDirected THEN SetKey(r1, bwd, LinkCapacity(l))
                   ELSE IF bwd \notin DOMAIN r1 THEN SetKey(r1, bwd, 0)
                   ELSE r1
         IN  InitResidual(g, i + 1, r2)

Max(a, b) == IF a >= b THEN a ELSE b

Min(a, b) == IF a <= b THEN a ELSE b

RECURSIVE FlowDetailsFrom(_, _, _, _)
FlowDetailsFrom(g, r, i, details) ==
    IF i > Len(g.links) THEN details
    ELSE LET l == g.links[i]
             cap == LinkCapacity(l)
             fwd == <<l.source, l.target>>
             bwd == <<l.target, l.source>>
             d == IF g.isDirected THEN SetKey(details, fwd, Max(0, cap - r[fwd]))
                  ELSE IF r[fwd] < cap
                       THEN SetKey(SetKey(details, fwd, cap - r[fwd]), bwd, 0)
                  ELSE IF r[bwd] < cap
                       THEN SetKey(SetKey(details, bwd, cap - r[bwd]), fwd, 0)
                  ELSE SetKey(details, fwd, 0)
         IN  FlowDetailsFrom(g, r, i + 1, d)

getFlowDetails(g, r) == FlowDetailsFrom(g, r, 1, <<>>)

RECURSIVE FlowBfsScan(_, _, _, _, _)
\* "for (const node of graph.nodes)" for the dequeued u; st.found once v === t
FlowBfsScan(g, t, u, k, st) ==
    IF k > Len(g.nodes) \/ st.found THEN st
    ELSE LET v == g.nodes[k] IN
         IF /\ ~InSeq(v, st.visited)
            /\ <<u, v>> \in DOMAIN st.rGraph
            /\ st.rGraph[<<u, v>>] > 0
         THEN LET vis == Append(st.visited, v)
              IN  FlowBfsScan(g, t, u, k + 1,
                    [st EXCEPT
                       !.queue = Append(@, v),
                       !.parent = SetKey(@, v, u),
                       !.visited = vis,
                       !.found = (v = t),
                       !.steps = Append(@,
                          [log |-> <<"flow.visit", v, st.rGraph[<<u, v>>]>>,
                           visited |-> vis, currentNodeId |-> v,
                           currentLinkId |-> [source |-> u, target |-> v],
                           flowDetails |-> getFlowDetails(g, st.rGraph)])])
         ELSE FlowBfsScan(g, t, u, k + 1, st)

RECURSIVE FlowBfsLoop(_, _, _)
FlowBfsLoop(g, t, st) ==
    IF st.queue = <<>> \/ st.found THEN st
    ELSE FlowBfsLoop(g, t,
            FlowBfsScan(g, t, Head(st.queue), 1, [st EXCEPT !.queue = Tail(@)]))

\* bfs(): st.found is its return value, st.parent the pointers it leaves
FlowBfs(g, s, t, st) ==
    LET scanLog == <<"flow.scan">>
    IN  FlowBfsLoop(g, t,
          [st EXCEPT
             !.queue = <<s>>, !.visited = <<s>>, !.parent = <<>>, !.found = FALSE,
             !.logs = Append(@, scanLog),
             !.steps = Append(@,
                [log |-> scanLog, visited |-> <<s>>, currentNodeId |-> s,
                 flowDetails |-> getFlowDetails(g, st.rGraph)])])

RECURSIVE AugmentingPath(_, _, _, _)
\* while (v !== s) { u = parent[v]; path.unshift(u); v = u; }
AugmentingPath(parent, s, v, path) ==
    IF v = s THEN path ELSE AugmentingPath(parent, s, parent[v], <<parent[v]>> \o path)

\* the residual of the path's first edge only
PathFlowOfFirstEdge(r, path, k) == r[<<path[1], path[2]>>]

RECURSIVE PathFlow(_, _, _)
\* Math.min over the residuals of the path's edges, starting from Infinity
PathFlow(r, path, k) ==
    IF k >= Len(path) THEN Infinity
    ELSE Min(r[<<path[k], path[k + 1]>>], PathFlow(r, path, k + 1))

RECURSIVE Augment(_, _, _, _)
\* rGraph[u->v] -= pathFlow; rGraph[v->u] += pathFlow, from the sink backwards
Augment(r, path, k, pathFlow) ==
    IF k < 1 THEN r
    ELSE LET fwd == <<path[k], path[k + 1]>>
             bwd == <<path[k + 1], path[k]>>
             r1 == [r EXCEPT ![fwd] = @ - pathFlow]
         IN  Augment([r1 EXCEPT ![bwd] = @ + pathFlow], path, k - 1, pathFlow)

RECURSIVE FlowLoop(_, _, _, _)
\* while (bfs()) { ... }
FlowLoop(g, s, t, st) ==
    LET b == FlowBfs(g, s, t, st) IN
    IF ~b.found THEN b
    ELSE LET path == AugmentingPath(b.parent, s, t, <<t>>)
             pathFlow == PathFlow(b.rGraph, path, 1)
             foundLog == <<"flow.found", path>>
             bottleLog == <<"flow.bottleneck", pathFlow>>
             updateLog == <<"flow.update", pathFlow>>
             r == Augment(b.rGraph, path, Len(path) - 1, pathFlow)
         IN  FlowLoop(g, s, t,
               [b EXCEPT
                  !.rGraph = r,
                  !.maxFlow = @ + pathFlow,
                  !.logs = @ \o <<foundLog, bottleLog, updateLog>>,
                  !.steps = @ \o
                     <<[log |-> foundLog, path |-> path,
                        flowDetails |-> getFlowDetails(g, b.rGraph),
                        currentNodeId |-> Null],
                       [log |-> bottleLog, path |-> path,
                        flowDetails |-> getFlowDetails(g, b.rGraph)],
                       [log |-> updateLog, path |-> path,
                        flowDetails |-> getFlowDetails(g, r)]>>])

\* the scratch state of runFordFulkerson when no augmenting path is left
FordFulkersonFinal(g, s, t) ==
    LET r0 == InitResidual(g, 1, <<>>)
        initLog == <<"flow.init", s, t>>
    IN  FlowLoop(g, s, t,
          [rGraph |-> r0, parent |-> <<>>, maxFlow |-> 0, queue |-> <<>>,
           visited |-> <<>>, found |-> FALSE, logs |-> <<initLog>>,
           steps |-> <<[log |-> initLog, flowDetails |-> getFlowDetails(g, r0)]>>])

runFordFulkerson(g, s, t) ==
    LET st == FordFulkersonFinal(g, s, t)
        finalFlowDetails == getFlowDetails(g, st.rGraph)
        saturationLog == <<"flow.saturation">>
        resultLog == <<"flow.result", st.maxFlow>>
    IN  [maxFlow |-> st.maxFlow, flowDetails |-> finalFlowDetails,
         logs |-> st.logs \o <<saturationLog, resultLog>>,
         steps |-> st.steps \o
                   <<[log |-> saturationLog, flowDetails |-> finalFlowDetails],
                     [log |-> resultLog, flowDetails |-> finalFlowDetails]>>]

(***************************************************************************)
(* getDegrees, runFleury, runHierholzer.                                   *)
(***************************************************************************)
getDegrees(g) ==
    LET from(n) == Cardinality({i \in 1..Len(g.links) : g.links[i].source = n})
        to(n) == Cardinality({i \in 1..Len(g.links) : g.links[i].target = n})
    IN  [inDegree |-> [n \in NodeSet(g) |-> IF g.isDirected THEN to(n) ELSE 0],
         outDegree |-> [n \in NodeSet(g) |-> IF g.isDirected THEN from(n) ELSE 0],
         degree |-> [n \in NodeSet(g) |-> IF g.isDirected THEN 0 ELSE from(n) + to(n)]]

\* the last node, in the order of graph.nodes, that lies in S
LastNodeIn(g, S) ==
    g.nodes[CHOOSE i \in 1..Len(g.nodes) :
                /\ g.nodes[i] \in S
                /\ \A j \in (i + 1)..Len(g.nodes) : g.nodes[j] \notin S]

\* "Euler Check Logic" of runFleury: an error log, or the start node and a log
FleuryCheck(g) ==
    LET d == getDegrees(g)
        startNodes == {n \in NodeSet(g) : d.outDegree[n] = d.inDegree[n] + 1}
        endNodes == {n \in NodeSet(g) : d.inDegree[n] = d.outDegree[n] + 1}
        odd == {n \in NodeSet(g) : d.degree[n] % 2 # 0}
    IN  IF g.isDirected
        THEN IF \E n \in NodeSet(g) :
                    /\ d.outDegree[n] # d.inDegree[n]
                    /\ d.outDegree[n] # d.inDegree[n] + 1
                    /\ d.inDegree[n] # d.outDegree[n] + 1
             THEN [error |-> <<"fleury.unbalanced">>]
             ELSE IF startNodes = {} /\ endNodes = {}
             THEN [startNode |-> g.nodes[1], log |-> <<"fleury.directedCircuit">>]
             ELSE IF Cardinality(startNodes) = 1 /\ Cardinality(endNodes) = 1
             THEN [startNode |-> LastNodeIn(g, startNodes),
                   log |-> <<"fleury.directedPath">>]
             ELSE [error |-> <<"fleury.startEndCount">>]
        ELSE IF odd = {}
             THEN [startNode |-> g.nodes[1], log |-> <<"fleury.circuit">>]
             ELSE IF Cardinality(odd) = 2
             THEN [startNode |-> LastNodeIn(g, odd), log |-> <<"fleury.path">>]
             ELSE [error |-> <<"fleury.oddCount">>]

RECURSIVE NeighborIds(_, _, _)
\* adj[l.source].push(l.target); if (!graph.isDirected) adj[l.target].push(l.source)
NeighborIds(g, n, i) ==
    IF i > Len(g.links) THEN <<>>
    ELSE LET l == g.links[i]
         IN  (IF l.source = n THEN <<l.target>> ELSE <<>>)
             \o (IF ~g.isDirected /\ l.target = n THEN <<l.source>> ELSE <<>>)
             \o NeighborIds(g, n, i + 1)

FleuryAdj(g) == [n \in NodeSet(g) |-> NeighborIds(g, n, 1)]

RECURSIVE PushUnvisited(_, _, _)
PushUnvisited(nbs, i, st) ==
    IF i > Len(nbs) THEN st
    ELSE IF nbs[i] \notin st.visited
    THEN PushUnvisited(nbs, i + 1,
            [st EXCEPT !.visited = @ \cup {nbs[i]}, !.stack = Append(@, nbs[i])])
    ELSE PushUnvisited(nbs, i + 1, st)

RECURSIVE CountReachableLoop(_, _)
CountReachableLoop(currentAdj, st) ==
    IF st.stack = <<>> THEN st.count
    ELSE LET node == st.stack[Len(st.stack)]
         IN  CountReachableLoop(currentAdj,
               PushUnvisited(currentAdj[node], 1,
                  [st EXCEPT !.stack = SubSeq(@, 1, Len(@) - 1), !.count = @ + 1]))

countReachable(u, currentAdj) ==
    CountReachableLoop(currentAdj, [stack |-> <<u>>, visited |-> {u}, count |-> 0])

\* adj[u] = adj[u].filter(n => n !== v), and the same for adj[v] when undirected
removeEdge(g, adj, u, v) ==
    LET notV(n) == n # v
        notU(n) == n # u
        a1 == [adj EXCEPT ![u] = SelectSeq(@, notV)]
    IN  IF ~g.isDirected THEN [a1 EXCEPT ![v] = SelectSeq(@, notU)] ELSE a1

\* its return value, and adj as the call leaves it
isValidNextEdge(g, adj, u, v) ==
    IF Len(adj[u]) = 1 THEN [valid |-> TRUE, adj |-> adj]
    ELSE LET count1 == countReachable(u, adj)
             a1 == removeEdge(g, adj, u, v)
             count2 == countReachable(u, a1)
             a2 == [a1 EXCEPT ![u] = Append(@, v)]
             a3 == IF ~g.isDirected THEN [a2 EXCEPT ![v] = Append(@, u)] ELSE a2
         IN  [valid |-> count1 <= count2, adj |-> a3]

RECURSIVE FleuryChoose(_, _, _, _, _)
\* "for (const v of neighbors)": neighbors is the array adj[u] held when the
\* loop began, which removeEdge replaces and never changes
FleuryChoose(g, adj, u, neighbors, i) ==
    IF i > Len(neighbors) THEN [chosenV |-> neighbors[1], adj |-> adj]
    ELSE LET r == isValidNextEdge(g, adj, u, neighbors[i])
         IN  IF r.valid THEN [chosenV |-> neighbors[i], adj |-> r.adj]
             ELSE FleuryChoose(g, r.adj, u, neighbors, i + 1)

RECURSIVE FleuryLoop(_, _)
FleuryLoop(g, st) ==
    IF ~(Len(st.adj[st.u]) > 0 /\ st.step < (Len(g.links) + 2) * 2) THEN st
    ELSE LET c == FleuryChoose(g, st.adj, st.u, st.adj[st.u], 1)
             stepLog == <<"fleury.step", st.u, c.chosenV>>
         IN  FleuryLoop(g,
               [st EXCEPT
                  !.step = @ + 1,
                  !.adj = removeEdge(g, c.adj, st.u, c.chosenV),
                  !.logs = Append(@, stepLog),
                  !.steps = Append(@,
                     [log |-> stepLog, path |-> Append(st.path, c.chosenV),
                      currentNodeId |-> c.chosenV,
                      currentLinkId |-> [source |-> st.u, target |-> c.chosenV]]),
                  !.path = Append(@, c.chosenV),
                  !.u = c.chosenV])

runFleury(g) ==
    LET check == FleuryCheck(g) IN
    IF Len(g.nodes) = 0 THEN Thrown
    ELSE IF "error" \in DOMAIN check THEN [logs |-> <<check.error>>, steps |-> <<>>]
    ELSE LET initLog == <<"fleury.init">>
             fin == FleuryLoop(g,
                      [adj |-> FleuryAdj(g), u |-> check.startNode,
                       path |-> <<check.startNode>>, step |-> 0,
                       logs |-> <<check.log, initLog>>,
                       steps |-> <<[log |-> initLog, visited |-> <<>>,
                                    currentNodeId |-> check.startNode]>>])
             finalLog == <<"fleury.result", fin.path>>
         IN  [path |-> fin.path, visited |-> fin.path,
              logs |-> Append(fin.logs, finalLog),
              steps |-> Append(fin.steps,
                          [log |-> finalLog, path |-> fin.path, visited |-> fin.path])]

\* the check of runHierholzer with only its undirected half
HierholzerCheckByDegreeOnly(g) ==
    LET odd == {n \in NodeSet(g) : getDegrees(g).degree[n] % 2 # 0}
    IN  IF Cardinality(odd) = 2 THEN [startNode |-> LastNodeIn(g, odd)]
        ELSE IF odd # {} THEN [error |-> <<"hierholzer.oddCount">>]
        ELSE [startNode |-> g.nodes[1]]

\* "Euler Check Logic" of runHierholzer
HierholzerCheck(g) ==
    LET d == getDegrees(g)
        startNodes == {n \in NodeSet(g) : d.outDegree[n] = d.inDegree[n] + 1}
        odd == {n \in NodeSet(g) : d.degree[n] % 2 # 0}
    IN  IF g.isDirected
        THEN IF \E n \in NodeSet(g) :
                    /\ d.outDegree[n] # d.inDegree[n]
                    /\ d.outDegree[n] # d.inDegree[n] + 1
                    /\ d.inDegree[n] # d.outDegree[n] + 1
             THEN [error |-> <<"hierholzer.condition">>]
             ELSE IF Cardinality(startNodes) = 1
             THEN [startNode |-> LastNodeIn(g, startNodes)]
             ELSE IF startNodes = {}
             THEN [startNode |-> g.nodes[1]]
             ELSE [error |-> <<"hierholzer.noPath">>]
        ELSE IF Cardinality(odd) = 2
             THEN [startNode |-> LastNodeIn(g, odd)]
             ELSE IF odd # {}
             THEN [error |-> <<"hierholzer.oddCount">>]
             ELSE [startNode |-> g.nodes[1]]

HierholzerAdj(g) == [n \in NodeSet(g) |-> NeighborIds(g, n, 1)]

\* idx = s.indexOf(x); if (idx > -1) s.splice(idx, 1)
SpliceFirst(s, x) ==
    IF ~InSeq(x, s) THEN s
    ELSE LET idx == CHOOSE i \in 1..Len(s) : s[i] = x /\ \A j \in 1..(i - 1) : s[j] # x
         IN  SubSeq(s, 1, idx - 1) \o SubSeq(s, idx + 1, Len(s))

RECURSIVE HierholzerLoop(_, _)
HierholzerLoop(g, st) ==
    IF st.stack = <<>> THEN st
    ELSE LET u == st.stack[Len(st.stack)] IN
         IF Len(st.adj[u]) > 0
         THEN LET v == st.adj[u][Len(st.adj[u])]
                  a1 == [st.adj EXCEPT ![u] = SubSeq(@, 1, Len(@) - 1)]
                  a2 == IF ~g.isDirected THEN [a1 EXCEPT ![v] = SpliceFirst(@, u)] ELSE a1
                  pushLog == <<"hierholzer.forward", u, v>>
              IN  HierholzerLoop(g,
                    [st EXCEPT
                       !.adj = a2,
                       !.stack = Append(@, v),
                       !.logs = Append(@, pushLog),
                       !.steps = Append(@,
                          [log |-> pushLog, currentNodeId |-> v,
                           currentLinkId |-> [source |-> u, target |-> v]])])
         ELSE LET popLog == <<"hierholzer.backtrack", u>>
              IN  HierholzerLoop(g,
                    [st EXCEPT
                       !.stack = SubSeq(@, 1, Len(@) - 1),
                       !.circuit = Append(@, u),
                       !.logs = Append(@, popLog),
                       !.steps = Append(@, [log |-> popLog, currentNodeId |-> u])])

\* const stack = [startNode]; ...; stack.push(startNode);
HierholzerInitialStack(startNode) == <<startNode, startNode>>

runHierholzer(g) ==
    LET check == HierholzerCheck(g) IN
    IF Len(g.nodes) = 0 THEN Thrown
    ELSE IF "error" \in DOMAIN check THEN [logs |-> <<check.error>>, steps |-> <<>>]
    ELSE LET startLog == <<"hierholzer.start", check.startNode>>
             fin == HierholzerLoop(g,
                      [adj |-> HierholzerAdj(g),
                       stack |-> HierholzerInitialStack(check.startNode),
                       circuit |-> <<>>, logs |-> <<startLog>>,
                       steps |-> <<[log |-> startLog, visited |-> <<>>,
                                    currentNodeId |-> check.startNode]>>])
             resultPath == Reverse(fin.circuit)
             finalLog == <<"hierholzer.result", resultPath>>
         IN  [path |-> resultPath, visited |-> resultPath,
              logs |-> Append(fin.logs, finalLog),
              steps |-> Append(fin.steps, [log |-> finalLog, path |-> resultPath])]

(***************************************************************************)
(* checkBipartite.                                                         *)
(***************************************************************************)
RECURSIVE BipartiteNeighbors(_, _, _, _)
BipartiteNeighbors(adj, u, i, st) ==
    IF i > Len(adj[u]) \/ ~st.isBipartite THEN st
    ELSE LET v == adj[u][i].node IN
         IF v \notin DOMAIN st.colors
         THEN LET c == 1 - st.colors[u]
                  a == IF c = 0 THEN Append(st.setA, v) ELSE st.setA
                  b == IF c = 0 THEN st.setB ELSE Append(st.setB, v)
                  assignLog == <<"bipartite.assign", v, c>>
              IN  BipartiteNeighbors(adj, u, i + 1,
                    [st EXCEPT
                       !.colors = SetKey(@, v, c),
                       !.setA = a, !.setB = b,
                       !.queue = Append(@, v),
                       !.logs = Append(@, assignLog),
                       !.steps = Append(@,
                          [log |-> assignLog, currentNodeId |-> v,
                           currentLinkId |-> [source |-> u, target |-> v],
                           bipartiteSets |-> [setA |-> a, setB |-> b]])])
         ELSE IF st.colors[v] = st.colors[u]
         THEN LET conflictLog == <<"bipartite.conflict", u, v>>
              IN  [st EXCEPT
                     !.isBipartite = FALSE,
                     !.logs = Append(@, conflictLog),
                     !.steps = Append(@,
                        [log |-> conflictLog,
                         currentLinkId |-> [source |-> u, target |-> v],
                         bipartiteSets |-> [setA |-> st.setA, setB |-> st.setB]])]
         ELSE BipartiteNeighbors(adj, u, i + 1, st)

RECURSIVE BipartiteQueue(_, _)
BipartiteQueue(adj, st) ==
    IF st.queue = <<>> \/ ~st.isBipartite THEN st
    ELSE BipartiteQueue(adj,
            BipartiteNeighbors(adj, Head(st.queue), 1, [st EXCEPT !.queue = Tail(@)]))

RECURSIVE BipartiteNodes(_, _, _, _)
\* "for (const node of graph.nodes)"
BipartiteNodes(g, adj, k, st) ==
    IF k > Len(g.nodes) \/ ~st.isBipartite THEN st
    ELSE LET id == g.nodes[k] IN
         IF id \in DOMAIN st.colors THEN BipartiteNodes(g, adj, k + 1, st)
         ELSE LET a == Append(st.setA, id)
                  startLog == <<"bipartite.start", id>>
              IN  BipartiteNodes(g, adj, k + 1,
                    BipartiteQueue(adj,
                      [st EXCEPT
                         !.queue = <<id>>,
                         !.colors = SetKey(@, id, 0),
                         !.setA = a,
                         !.logs = Append(@, startLog),
                         !.steps = Append(@,
                            [log |-> startLog, currentNodeId |-> id,
                             bipartiteSets |-> [setA |-> a, setB |-> st.setB]])]))

\* checkBipartite colouring only the component of graph.nodes[0]
checkBipartiteFirstComponent(g) ==
    LET fin == BipartiteNodes([g EXCEPT !.nodes = <<g.nodes[1]>>], getAdjacencyList(g), 1,
                 [colors |-> <<>>, setA |-> <<>>, setB |-> <<>>, queue |-> <<>>,
                  isBipartite |-> TRUE, logs |-> <<<<"bipartite.init">>>>,
                  steps |-> <<>>])
        resultLog == <<"bipartite.result", fin.isBipartite>>
        sets == [setA |-> fin.setA, setB |-> fin.setB]
    IN  [isBipartite |-> fin.isBipartite, bipartiteSets |-> sets,
         logs |-> Append(fin.logs, resultLog),
         steps |-> Append(fin.steps, [log |-> resultLog, bipartiteSets |-> sets])]

checkBipartite(g) ==
    LET fin == BipartiteNodes(g, getAdjacencyList(g), 1,
                 [colors |-> <<>>, setA |-> <<>>, setB |-> <<>>, queue |-> <<>>,
                  isBipartite |-> TRUE, logs |-> <<<<"bipartite.init">>>>,
                  steps |-> <<>>])
        resultLog == <<"bipartite.result", fin.isBipartite>>
        sets == [setA |-> fin.setA, setB |-> fin.setB]
    IN  [isBipartite |-> fin.isBipartite, bipartiteSets |-> sets,
         logs |-> Append(fin.logs, resultLog),
         steps |-> Append(fin.steps, [log |-> resultLog, bipartiteSets |-> sets])]

(***************************************************************************)
(* The arrays a call leaves behind.  An entry point changes arrays in      *)
(* place (sort, pop, splice, shift, push) or rebinds them (filter); the    *)
(* operators below name each array that is built from graph.nodes or       *)
(* graph.links and written afterwards, next to the two arrays of the       *)
(* graph object itself, with the content the call leaves in it.            *)
(***************************************************************************)
GraphArrays(g) == ("graph.links" :> g.links) @@ ("graph.nodes" :> g.nodes)

\* the graph object as a call leaves it
GraphAfter(g, arrays) ==
    [g EXCEPT !.links = arrays["graph.links"], !.nodes = arrays["graph.nodes"]]

\* queue is a new array filled with the ids of graph.nodes, then sorted and shifted
DijkstraArrays(g, s, e) ==
    IF hasNegativeWeight(g) THEN GraphArrays(g)
    ELSE ("queue" :> DijkstraFinal(g, s, e).queue) @@ GraphArrays(g)

\* graph.links.sort(...): the links sorted where they are
KruskalArraysSortedInPlace(g) ==
    IF g.isDirected THEN GraphArrays(g)
    ELSE ("graph.links" :> SortByWeight(g.links)) @@ ("graph.nodes" :> g.nodes)

\* sortedLinks = [...graph.links].sort(...): a copy is sorted
KruskalArrays(g) ==
    IF g.isDirected THEN GraphArrays(g)
    ELSE ("sortedLinks" :> SortByWeight(g.links)) @@ GraphArrays(g)

\* adj[n.id] = [] for every node, filled by push and then cut down by removeEdge
FleuryArrays(g) ==
    LET check == FleuryCheck(g) IN
    IF Len(g.nodes) = 0 \/ "error" \in DOMAIN check THEN GraphArrays(g)
    ELSE ("adj" :> FleuryLoop(g, [adj |-> FleuryAdj(g), u |-> check.startNode,
                                  path |-> <<check.startNode>>, step |-> 0,
                                  logs |-> <<>>, steps |-> <<>>]).adj)
         @@ GraphArrays(g)

\* adj[n.id] = [] for every node, filled by push and then emptied by pop and splice
HierholzerArrays(g) ==
    LET check == HierholzerCheck(g) IN
    IF Len(g.nodes) = 0 \/ "error" \in DOMAIN check THEN GraphArrays(g)
    ELSE ("adj" :> HierholzerLoop(g, [adj |-> HierholzerAdj(g),
                                      stack |-> HierholzerInitialStack(check.startNode),
                                      circuit |-> <<>>, logs |-> <<>>,
                                      steps |-> <<>>]).adj)
         @@ GraphArrays(g)

(***************************************************************************)
(* Graph-theoretic notions the properties are stated with.                 *)
(***************************************************************************)
\* u -> v is a traversable step of g (either way round when g is undirected)
Arc(g, u, v) ==
    \E i \in 1..Len(g.links) :
        \/ g.links[i].source = u /\ g.links[i].target = v
        \/ ~g.isDirected /\ g.links[i].source = v /\ g.links[i].target = u

\* u and v are joined by a link, whatever its direction
Joined(g, u, v) ==
    \E i \in 1..Len(g.links) :
        \/ g.links[i].source = u /\ g.links[i].target = v
        \/ g.links[i].source = v /\ g.links[i].target = u

RECURSIVE Closure(_, _, _)
\* least set holding S and closed under Arc (byArc) or under Joined (otherwise)
Closure(g, S, byArc) ==
    LET T == S \cup {v \in NodeSet(g) :
                        \E u \in S : IF byArc THEN Arc(g, u, v) ELSE Joined(g, u, v)}
    IN  IF T = S THEN S ELSE Closure(g, T, byArc)

\* the nodes that can be reached from s along links, in their direction when directed
ReachableFrom(g, s) == Closure(g, {s}, TRUE)

\* the connected component of s (links taken without their direction)
ComponentOf(g, s) == Closure(g, {s}, FALSE)

(***************************************************************************)
(* The state machine: a graph snapshot and one call of an entry point on   *)
(* it.  The engine keeps no state between calls, so a behaviour is one     *)
(* call: the caller draws the parameters and stores what the call returns. *)
(***************************************************************************)
RunBFS ==
    \E s \in NodeSet(graph) :
        /\ ran = "NONE"
        /\ startId' = s
        /\ ran' = "BFS"
        /\ result' = runBFS(graph, s)
        /\ graph' = GraphAfter(graph, GraphArrays(graph))
        /\ UNCHANGED appVars
        /\ UNCHANGED endId

RunDFS ==
    \E s \in NodeSet(graph) :
        /\ ran = "NONE"
        /\ startId' = s
        /\ ran' = "DFS"
        /\ result' = runDFS(graph, s)
        /\ graph' = GraphAfter(graph, GraphArrays(graph))
        /\ UNCHANGED appVars
        /\ UNCHANGED endId

RunDijkstra ==
    \E s \in NodeSet(graph), e \in NodeSet(graph) \cup {Null} :
        /\ ran = "NONE"
        /\ startId' = s
        /\ endId' = e
        /\ ran' = "DIJKSTRA"
        /\ result' = runDijkstra(graph, s, e)
        /\ graph' = GraphAfter(graph, DijkstraArrays(graph, s, e))
        /\ UNCHANGED appVars

RunBellmanFord ==
    \E s \in NodeSet(graph), e \in NodeSet(graph) \cup {Null} :
        /\ ran = "NONE"
        /\ startId' = s
        /\ endId' = e
        /\ ran' = "BELLMAN_FORD"
        /\ result' = runBellmanFord(graph, s, e)
        /\ graph' = GraphAfter(graph, GraphArrays(graph))
        /\ UNCHANGED appVars

RunPrim ==
    /\ ran = "NONE"
    /\ ran' = "PRIM"
    /\ result' = runPrim(graph)
    /\ graph' = GraphAfter(graph, GraphArrays(graph))
    /\ UNCHANGED appVars
    /\ UNCHANGED <<startId, endId>>

RunKruskal ==
    /\ ran = "NONE"
    /\ ran' = "KRUSKAL"
    /\ result' = runKruskal(graph)
    /\ graph' = GraphAfter(graph, KruskalArrays(graph))
    /\ UNCHANGED appVars
    /\ UNCHANGED <<startId, endId>>

RunFleury ==
    /\ ran = "NONE"
    /\ ran' = "FLEURY"
    /\ result' = runFleury(graph)
    /\ graph' = GraphAfter(graph, FleuryArrays(graph))
    /\ UNCHANGED appVars
    /\ UNCHANGED <<startId, endId>>

RunHierholzer ==
    /\ ran = "NONE"
    /\ ran' = "HIERHOLZER"
    /\ result' = runHierholzer(graph)
    /\ graph' = GraphAfter(graph, HierholzerArrays(graph))
    /\ UNCHANGED appVars
    /\ UNCHANGED <<startId, endId>>

CheckBipartite ==
    /\ ran = "NONE"
    /\ ran' = "CHECK_BIPARTITE"
    /\ result' = checkBipartite(graph)
    /\ graph' = GraphAfter(graph, GraphArrays(graph))
    /\ UNCHANGED appVars
    /\ UNCHANGED <<startId, endId>>

RunFordFulkerson ==
    \E s \in NodeSet(graph), t \in NodeSet(graph) :
        /\ ran = "NONE"
        /\ s # t
        /\ startId' = s
        /\ endId' = t
        /\ ran' = "FORD_FULKERSON"
        /\ result' = runFordFulkerson(graph, s, t)
        /\ graph' = GraphAfter(graph, GraphArrays(graph))
        /\ UNCHANGED appVars

InitCommon ==
    /\ startId = Null
    /\ endId = Null
    /\ ran = "NONE"
    /\ result = NoResult
    /\ isInitialized = FALSE
    /\ startNodeId = Null
    /\ endNodeId = Null
    /\ finalResult = NullResult
    /\ computedFrom = <<>>
    /\ edits = 0
    /\ runs = 0
    /\ stepIndex = 0
    /\ isPlaying = FALSE

InitTopology == graph \in PlainGraphs /\ InitCommon

NextTopology == RunBFS \/ RunDFS \/ CheckBipartite

SpecTopology == InitTopology /\ [][NextTopology]_vars

InitWeighted == graph \in WeightedGraphs /\ InitCommon

NextWeighted == RunDijkstra \/ RunBellmanFord \/ RunPrim \/ RunKruskal

SpecWeighted == InitWeighted /\ [][NextWeighted]_vars

InitEuler == graph \in EulerGraphs /\ InitCommon

NextEuler == RunFleury \/ RunHierholzer

SpecEuler == InitEuler /\ [][NextEuler]_vars

InitExample == graph \in ExampleGraphs /\ InitCommon

NextExample == RunDijkstra \/ RunPrim \/ RunKruskal \/ RunFordFulkerson

SpecExample == InitExample /\ [][NextExample]_vars

InitEngine == graph \in WeightedGraphs /\ InitCommon

NextEngine ==
    \/ RunBFS \/ RunDFS \/ RunDijkstra \/ RunBellmanFord \/ RunPrim \/ RunKruskal
    \/ RunFordFulkerson \/ RunFleury \/ RunHierholzer \/ CheckBipartite

SpecEngine == InitEngine /\ [][NextEngine]_vars

\* a graph with no nodes (and so no links) is a graph too
NodelessGraphs == {[nodes |-> <<>>, links |-> <<>>, isDirected |-> d] : d \in BOOLEAN}

InitAnyGraph == graph \in (PlainGraphs \cup NodelessGraphs) /\ InitCommon

NextAnyGraph ==
    \/ RunBFS \/ RunDFS \/ RunDijkstra \/ RunBellmanFord \/ RunPrim \/ RunKruskal
    \/ RunFordFulkerson \/ RunFleury \/ RunHierholzer \/ CheckBipartite

SpecAnyGraph == InitAnyGraph /\ [][NextAnyGraph]_vars

InitFlow == graph \in FlowGraphs /\ InitCommon

NextFlow == RunFordFulkerson

SpecFlow == InitFlow /\ [][NextFlow]_vars

(***************************************************************************)
(* The App component (src/App.tsx:270-521): the graph held in state, the   *)
(* start and end node, the stored result, and the handlers that change     *)
(* them.  A node is its id: the position, label and type of a node play no *)
(* part in what the engine returns.  displayedResult is what the sync      *)
(* effect (383-403) derives from finalResult and stepIndex, and is not     *)
(* kept as a variable.                                                     *)
(***************************************************************************)
MaxEdits == 1

MaxRuns == 1

MaxClick == 2

CANVAS_WIDTH == 800

callVars == <<startId, endId, ran, result>>

SAMPLE_GRAPH_DATA ==
    [nodes |-> <<"n1", "n2", "n3", "n4", "n5">>,
     links |-> <<[source |-> "n1", target |-> "n2", weight |-> 10],
                 [source |-> "n1", target |-> "n3", weight |-> 5],
                 [source |-> "n2", target |-> "n4", weight |-> 8],
                 [source |-> "n2", target |-> "n5", weight |-> 15],
                 [source |-> "n4", target |-> "n5", weight |-> 20]>>,
     isDirected |-> FALSE]

\* `n${idCounter++}`
IdOf(k) == "n" \o ToString(k)

Abs(x) == IF x < 0 THEN -x ELSE x

\* Math.round(a / b) for a >= 0, b > 0
RoundDiv(a, b) == (2 * a + b) \div (2 * b)

\* placeLayer: the x of the i-th node (from 0) of a layer of count nodes
LayerX(count, paddingX, i) ==
    IF count > 1
    THEN paddingX + RoundDiv((CANVAS_WIDTH - 2 * paddingX) * i, count - 1)
    ELSE CANVAS_WIDTH \div 2

\* the first of the candidates whose x is nearest to x (reduce with a strict <, and
\* the head of a stable sort by distance)
Closest(xs, x, candidates) ==
    CHOOSE i \in candidates :
        \A j \in candidates :
            \/ Abs(xs[i] - x) < Abs(xs[j] - x)
            \/ Abs(xs[i] - x) = Abs(xs[j] - x) /\ i <= j

\* rInt(1, 50) when config.randomWeights, rInt(min, max) otherwise; the draw is the
\* least or the greatest value of the range
getWeight(config, draw, min, max) ==
    IF config.randomWeights
    THEN IF draw = "least" THEN 1 ELSE 50
    ELSE IF draw = "least" THEN min ELSE max

\* draw stands for the outcomes of rInt, second for those of Math.random() > 0.6
generateTopology(config, draw, second) ==
    LET R == config.routers
        S == config.switches
        H == config.pcs + config.servers
        routerX == [i \in 1..R |-> LayerX(R, 60, i - 1)]
        switchX == [i \in 1..S |-> LayerX(S, 60, i - 1)]
        hostX == [i \in 1..H |-> LayerX(H, 40, i - 1)]
        router(i) == IdOf(i)
        switch(i) == IdOf(R + i)
        host(i) == IdOf(R + S + i)
        chain == [i \in 1..(R - 1) |->
                     [source |-> router(i), target |-> router(i + 1),
                      weight |-> getWeight(config, draw, 10, 30), capacity |-> 1000]]
        ring == IF R > 2
                THEN <<[source |-> router(R), target |-> router(1),
                        weight |-> getWeight(config, draw, 10, 30), capacity |-> 1000]>>
                ELSE <<>>
        switchLinks(i) ==
            IF R = 0 THEN <<>>
            ELSE LET first == Closest(routerX, switchX[i], 1..R) IN
                 <<[source |-> switch(i), target |-> router(first),
                    weight |-> getWeight(config, draw, 5, 15), capacity |-> 1000]>>
                 \o IF R > 1 /\ second
                    THEN <<[source |-> switch(i),
                            target |-> router(Closest(routerX, switchX[i],
                                                      (1..R) \ {first})),
                            weight |-> getWeight(config, draw, 10, 20),
                            capacity |-> 1000]>>
                    ELSE <<>>
        hostLinks(i) ==
            IF S > 0
            THEN <<[source |-> host(i),
                    target |-> switch(Closest(switchX, hostX[i], 1..S)),
                    weight |-> getWeight(config, draw, 2, 5), capacity |-> 100]>>
            ELSE IF R > 0
            THEN <<[source |-> host(i),
                    target |-> router(Closest(routerX, hostX[i], 1..R)),
                    weight |-> getWeight(config, draw, 5, 10), capacity |-> 100]>>
            ELSE <<>>
        allSwitchLinks[k \in 0..S] ==
            IF k = 0 THEN <<>> ELSE allSwitchLinks[k - 1] \o switchLinks(k)
        allHostLinks[k \in 0..H] ==
            IF k = 0 THEN <<>> ELSE allHostLinks[k - 1] \o hostLinks(k)
    IN  [nodes |-> [k \in 1..(R + S + H) |-> IdOf(k)],
         links |-> chain \o ring \o allSwitchLinks[S] \o allHostLinks[H],
         isDirected |-> FALSE]

\* what the form of the start screen holds when the user presses the button
InitConfigs ==
    {[routers |-> 0, switches |-> 0, pcs |-> 0, servers |-> 0, randomWeights |-> FALSE],
     [routers |-> 2, switches |-> 1, pcs |-> 0, servers |-> 0, randomWeights |-> FALSE]}

\* rInt(1, 3) routers, rInt(2, 5) switches, rInt(5, 12) pcs, rInt(1, 3) servers:
\* the least of each
RandomConfigs ==
    {[routers |-> 1, switches |-> 2, pcs |-> 5, servers |-> 1, randomWeights |-> TRUE]}

\* graphs a file can hold
LoadableGraphs ==
    {[nodes |-> <<"A", "B">>,
      links |-> <<[source |-> "A", target |-> "B", weight |-> 1]>>,
      isDirected |-> TRUE]}

\* the nodes and links the user clicks on
ClickableNodes == {graph.nodes[i] : i \in 1..Min(MaxClick, Len(graph.nodes))}

ClickableLinks == {graph.links[i] : i \in 1..Min(MaxClick, Len(graph.links))}

AlgorithmType ==
    {"BFS", "DFS", "DIJKSTRA", "BELLMAN_FORD", "CHECK_BIPARTITE", "PRIM", "KRUSKAL",
     "FORD_FULKERSON", "FLEURY", "HIERHOLZER"}

\* the part of a handler that calls handleGraphUpdate(newGraph)
handleGraphUpdate(newGraph) ==
    /\ graph' = newGraph
    /\ IF finalResult # NullResult
       THEN /\ finalResult' = NullResult /\ computedFrom' = <<>>
            /\ isPlaying' = FALSE
            /\ stepIndex' = 0
       ELSE UNCHANGED <<finalResult, computedFrom, playVars>>

handleInitialize ==
    \E config \in InitConfigs, draw \in {"least", "greatest"}, second \in BOOLEAN :
        /\ ~isInitialized
        /\ startNodeId' = Null
        /\ endNodeId' = Null
        /\ graph' = generateTopology(config, draw, second)
        /\ isInitialized' = TRUE
        /\ UNCHANGED <<callVars, finalResult, computedFrom, edits, runs, playVars>>

handleFullyRandom ==
    \E config \in RandomConfigs, draw \in {"least", "greatest"}, second \in BOOLEAN :
        /\ ~isInitialized
        /\ startNodeId' = Null
        /\ endNodeId' = Null
        /\ graph' = generateTopology(config, draw, second)
        /\ isInitialized' = TRUE
        /\ UNCHANGED <<callVars, finalResult, computedFrom, edits, runs, playVars>>

handleUseSample ==
    /\ ~isInitialized
    /\ graph' = SAMPLE_GRAPH_DATA
    /\ startNodeId' = Null
    /\ endNodeId' = Null
    /\ isInitialized' = TRUE
    /\ UNCHANGED <<callVars, finalResult, computedFrom, edits, runs, playVars>>

\* the file input is on the start screen and in the header of the main screen
handleLoad ==
    \E loadedGraph \in LoadableGraphs :
        /\ graph' = loadedGraph
        /\ finalResult' = NullResult
        /\ computedFrom' = <<>>
        /\ startNodeId' = Null
        /\ endNodeId' = Null
        /\ isInitialized' = TRUE
        /\ UNCHANGED <<callVars, edits, runs, playVars>>

\* the button that leads back to the start screen
ResetTopology ==
    /\ isInitialized
    /\ isInitialized' = FALSE
    /\ graph' = SAMPLE_GRAPH_DATA
    /\ startNodeId' = Null
    /\ endNodeId' = Null
    /\ UNCHANGED <<callVars, finalResult, computedFrom, edits, runs, playVars>>

ToggleDirected ==
    /\ isInitialized
    /\ edits < MaxEdits
    /\ edits' = edits + 1
    /\ handleGraphUpdate([graph EXCEPT !.isDirected = ~graph.isDirected])
    /\ UNCHANGED <<callVars, isInitialized, startNodeId, endNodeId, runs>>

\* a click on the canvas in mode add_node; the new id is `n${Date.now()}`
AddNode ==
    /\ isInitialized
    /\ edits < MaxEdits
    /\ edits' = edits + 1
    /\ handleGraphUpdate([graph EXCEPT !.nodes = Append(@, "nNow")])
    /\ UNCHANGED <<callVars, isInitialized, startNodeId, endNodeId, runs>>

\* dragging a node: the nodes get new positions
MoveNode ==
    /\ isInitialized
    /\ ClickableNodes # {}
    /\ handleGraphUpdate(graph)
    /\ UNCHANGED <<callVars, isInitialized, startNodeId, endNodeId, edits, runs>>

SetStartNode ==
    \E id \in ClickableNodes :
        /\ isInitialized
        /\ startNodeId' = id
        /\ UNCHANGED <<graph, callVars, isInitialized, endNodeId, finalResult,
                       computedFrom, edits, runs, playVars>>

SetEndNode ==
    \E id \in ClickableNodes :
        /\ isInitialized
        /\ endNodeId' = id
        /\ UNCHANGED <<graph, callVars, isInitialized, startNodeId, finalResult,
                       computedFrom, edits, runs, playVars>>

\* deleteSelected with a node selected, and the delete button of the node dialog
DeleteNode ==
    \E id \in ClickableNodes :
        /\ isInitialized
        /\ edits < MaxEdits
        /\ edits' = edits + 1
        /\ handleGraphUpdate(
               [graph EXCEPT !.nodes = SelectSeq(@, LAMBDA n : n # id),
                             !.links = SelectSeq(@, LAMBDA l : l.source # id
                                                               /\ l.target # id)])
        /\ startNodeId' = IF startNodeId = id THEN Null ELSE startNodeId
        /\ endNodeId' = IF endNodeId = id THEN Null ELSE endNodeId
        /\ UNCHANGED <<callVars, isInitialized, runs>>

\* deleteSelected with a link selected
DeleteLink ==
    \E selectedLink \in ClickableLinks :
        /\ isInitialized
        /\ edits < MaxEdits
        /\ edits' = edits + 1
        /\ handleGraphUpdate(
               [graph EXCEPT !.links =
                   SelectSeq(@, LAMBDA l :
                       ~(\/ l.source = selectedLink.source
                            /\ l.target = selectedLink.target
                         \/ ~graph.isDirected /\ l.source = selectedLink.target
                            /\ l.target = selectedLink.source))])
        /\ UNCHANGED <<callVars, isInitialized, startNodeId, endNodeId, runs>>

\* two clicks in mode add_link, then the dialog submitted with the values it offers
AddLink ==
    \E tempLinkSource \in ClickableNodes, id \in ClickableNodes :
        /\ isInitialized
        /\ edits < MaxEdits
        /\ tempLinkSource # id
        /\ ~\E l \in Range(graph.links) :
               \/ l.source = tempLinkSource /\ l.target = id
               \/ ~graph.isDirected /\ l.source = id /\ l.target = tempLinkSource
        /\ edits' = edits + 1
        /\ handleGraphUpdate(
               [graph EXCEPT !.links =
                   Append(@, [source |-> tempLinkSource, target |-> id,
                              weight |-> 10, capacity |-> 100])])
        /\ UNCHANGED <<callVars, isInitialized, startNodeId, endNodeId, runs>>

\* the weight dialog of a link (it offers l.capacity || 100) submitted with a new
\* weight
EditWeight ==
    \E edited \in ClickableLinks, weight \in {1} :
        /\ isInitialized
        /\ edits < MaxEdits
        /\ edits' = edits + 1
        /\ handleGraphUpdate(
               [graph EXCEPT !.links =
                   [i \in 1..Len(@) |->
                       IF \/ @[i].source = edited.source /\ @[i].target = edited.target
                          \/ ~graph.isDirected /\ @[i].source = edited.target
                             /\ @[i].target = edited.source
                       THEN [source |-> @[i].source, target |-> @[i].target,
                             weight |-> weight,
                             capacity |-> IF "capacity" \in DOMAIN edited
                                             /\ edited.capacity # 0
                                          THEN edited.capacity ELSE 100]
                       ELSE @[i]]])
        /\ UNCHANGED <<callVars, isInitialized, startNodeId, endNodeId, runs>>

\* the button that closes the result panel
ClearResult ==
    /\ isInitialized
    /\ finalResult # NullResult
    /\ finalResult' = NullResult
    /\ computedFrom' = <<>>
    /\ UNCHANGED <<graph, callVars, isInitialized, startNodeId, endNodeId, edits, runs,
                   playVars>>

\* what the switch of runAlgorithm leaves in `result`; Thrown when the call throws
CallOf(type) ==
    CASE type = "BFS" -> runBFS(graph, startNodeId)
      [] type = "DFS" -> runDFS(graph, startNodeId)
      [] type = "DIJKSTRA" -> runDijkstra(graph, startNodeId, endNodeId)
      [] type = "BELLMAN_FORD" -> runBellmanFord(graph, startNodeId, endNodeId)
      [] type = "CHECK_BIPARTITE" -> checkBipartite(graph)
      [] type = "PRIM" -> runPrim(graph)
      [] type = "KRUSKAL" -> runKruskal(graph)
      [] type = "FORD_FULKERSON" -> runFordFulkerson(graph, startNodeId, endNodeId)
      [] type = "FLEURY" -> runFleury(graph)
      [] type = "HIERHOLZER" -> runHierholzer(graph)

\* the early `return alert(...)` of the switch
Alerted(type) ==
    \/ type \in {"BFS", "DFS", "DIJKSTRA", "BELLMAN_FORD"} /\ startNodeId = Null
    \/ type = "FORD_FULKERSON" /\ (startNodeId = Null \/ endNodeId = Null)

\* finalResult?.steps with at least one step
HasSteps(r) == r # NullResult /\ "steps" \in DOMAIN r /\ r.steps # <<>>

\* runAlgorithm(type), for the types and the number of runs a specification allows
runAlgorithmWithin(types, maxRuns) ==
    \E type \in types :
        /\ isInitialized
        /\ runs < maxRuns
        /\ runs' = runs + 1
        /\ stepIndex' = 0
        /\ IF Alerted(type) \/ CallOf(type) = Thrown
           THEN finalResult' = NullResult /\ computedFrom' = <<>>
           ELSE finalResult' = CallOf(type) /\ computedFrom' = <<graph>>
        /\ isPlaying' = HasSteps(finalResult')
        /\ UNCHANGED <<graph, callVars, isInitialized, startNodeId, endNodeId, edits>>

runAlgorithm == runAlgorithmWithin(AlgorithmType, MaxRuns)

InitApp == graph = SAMPLE_GRAPH_DATA /\ InitCommon

NextApp ==
    \/ handleInitialize \/ handleFullyRandom \/ handleUseSample \/ handleLoad
    \/ ResetTopology \/ ToggleDirected \/ AddNode \/ MoveNode \/ DeleteNode
    \/ AddLink \/ EditWeight \/ DeleteLink \/ SetStartNode \/ SetEndNode
    \/ ClearResult \/ runAlgorithm

SpecApp == InitApp /\ [][NextApp]_vars

(***************************************************************************)
(* Playback (src/App.tsx:366-380 and 872-918): the animation timer and the *)
(* five buttons of the playback bar, which is rendered while finalResult   *)
(* has at least one step.                                                  *)
(***************************************************************************)
MaxReruns == 2

\* the algorithms started while playing back: one that needs a start node and one
\* that refuses a directed graph without any step
PlaybackTypes == {"BFS", "KRUSKAL"}

\* the interval callback, with no test against the number of steps
TimerTickUnbounded ==
    /\ isPlaying
    /\ finalResult # NullResult
    /\ "steps" \in DOMAIN finalResult
    /\ stepIndex < Len(finalResult.steps)
    /\ stepIndex' = stepIndex + 1
    /\ UNCHANGED <<graph, callVars, isInitialized, startNodeId, endNodeId, finalResult,
                   computedFrom, edits, runs, isPlaying>>

\* one firing of the 800 ms interval of the animation effect
TimerTick ==
    /\ isPlaying
    /\ finalResult # NullResult
    /\ "steps" \in DOMAIN finalResult
    /\ stepIndex < Len(finalResult.steps)
    /\ IF stepIndex >= Len(finalResult.steps) - 1
       THEN isPlaying' = FALSE /\ stepIndex' = stepIndex
       ELSE stepIndex' = stepIndex + 1 /\ UNCHANGED isPlaying
    /\ UNCHANGED <<graph, callVars, isInitialized, startNodeId, endNodeId, finalResult,
                   computedFrom, edits, runs>>

\* the playback bar is on the main screen
PlaybackBarShown == isInitialized /\ HasSteps(finalResult)

StepFirst ==
    /\ PlaybackBarShown
    /\ stepIndex' = 0
    /\ UNCHANGED <<graph, callVars, isInitialized, startNodeId, endNodeId, finalResult,
                   computedFrom, edits, runs, isPlaying>>

StepPrevious ==
    /\ PlaybackBarShown
    /\ stepIndex' = Max(0, stepIndex - 1)
    /\ UNCHANGED <<graph, callVars, isInitialized, startNodeId, endNodeId, finalResult,
                   computedFrom, edits, runs, isPlaying>>

TogglePlay ==
    /\ PlaybackBarShown
    /\ isPlaying' = ~isPlaying
    /\ UNCHANGED <<graph, callVars, isInitialized, startNodeId, endNodeId, finalResult,
                   computedFrom, edits, runs, stepIndex>>

StepNext ==
    /\ PlaybackBarShown
    /\ stepIndex' = Min(Len(finalResult.steps) - 1, stepIndex + 1)
    /\ UNCHANGED <<graph, callVars, isInitialized, startNodeId, endNodeId, finalResult,
                   computedFrom, edits, runs, isPlaying>>

StepLast ==
    /\ PlaybackBarShown
    /\ stepIndex' = Len(finalResult.steps) - 1
    /\ UNCHANGED <<graph, callVars, isInitialized, startNodeId, endNodeId, finalResult,
                   computedFrom, edits, runs, isPlaying>>

PlaybackRun == runAlgorithmWithin(PlaybackTypes, MaxReruns)

NextPlayback ==
    \/ handleUseSample \/ handleLoad \/ ResetTopology \/ ToggleDirected \/ SetStartNode
    \/ PlaybackRun \/ ClearResult
    \/ TimerTick \/ StepFirst \/ StepPrevious \/ TogglePlay \/ StepNext \/ StepLast

SpecPlayback == InitApp /\ [][NextPlayback]_vars

(***************************************************************************)
(* C1 (as stated): the visited list of runBFS / runDFS has no duplicate,   *)
(* at most |nodes| entries, and as many entries as the connected component *)
(* of the start node has nodes.                                            *)
(***************************************************************************)
C1_VisitedIsComponent ==
    ran \in {"BFS", "DFS"} =>
        /\ NoDup(result.visited)
        /\ Len(result.visited) <= Len(graph.nodes)
        /\ Len(result.visited) = Cardinality(ComponentOf(graph, startId))

(***************************************************************************)
(* C1 (amended): the visited list of runBFS / runDFS has no duplicate, at  *)
(* most |nodes| entries, and holds exactly the nodes reachable from the    *)
(* start node along links followed in their direction; in an undirected    *)
(* graph that is the connected component of the start node.                *)
(***************************************************************************)
C1_VisitedIsReachable ==
    ran \in {"BFS", "DFS"} =>
        /\ NoDup(result.visited)
        /\ Len(result.visited) <= Len(graph.nodes)
        /\ Range(result.visited) = ReachableFrom(graph, startId)
        /\ (~graph.isDirected =>
               Len(result.visited) = Cardinality(ComponentOf(graph, startId)))

C1_Witness ==
    /\ ran \in {"BFS", "DFS"}
    /\ graph.isDirected
    /\ Len(result.visited) = 2
    /\ Cardinality(ComponentOf(graph, startId)) = 3

\* the (node, distance) lines of the final routing table in a result's logs
DistanceTable(r, tag) ==
    {<<r.logs[i][2], r.logs[i][3]>> :
        i \in {j \in 1..Len(r.logs) : r.logs[j][1] = tag}}

\* the total cost reported with the path of a result that has one
ReportedCost(r) == r.logs[Len(r.logs)][3]

\* Dijkstra's and Bellman-Ford's results for the run held in the state
DijkstraNow == IF ran = "DIJKSTRA" THEN result ELSE runDijkstra(graph, startId, endId)

BellmanFordNow ==
    IF ran = "BELLMAN_FORD" THEN result ELSE runBellmanFord(graph, startId, endId)

(***************************************************************************)
(* C2: on a graph without a negative weight, runDijkstra and               *)
(* runBellmanFord end with the same distances: run without an end id they  *)
(* leave the same nodes at Infinity and give every other node the same     *)
(* distance; run with the same end id, both report the same total cost or  *)
(* both report the destination unreachable.                                *)
(***************************************************************************)
C2_DijkstraAgreesWithBellmanFord ==
    (ran \in {"DIJKSTRA", "BELLMAN_FORD"} /\ ~hasNegativeWeight(graph)) =>
        /\ DijkstraFinal(graph, startId, Null).distances
              = BellmanFordFinal(graph, startId).distances
        /\ endId = Null =>
              /\ DistanceTable(DijkstraNow, "dijkstra.net")
                    = DistanceTable(BellmanFordNow, "bf.distance")
              /\ DistanceTable(DijkstraNow, "dijkstra.net")
                    = {<<n, BellmanFordFinal(graph, startId).distances[n]>> :
                          n \in {m \in NodeSet(graph) :
                                   BellmanFordFinal(graph, startId).distances[m] # Infinity}}
        /\ endId # Null =>
              /\ ("path" \in DOMAIN DijkstraNow) = ("path" \in DOMAIN BellmanFordNow)
              /\ "path" \in DOMAIN DijkstraNow =>
                    ReportedCost(DijkstraNow) = ReportedCost(BellmanFordNow)
              /\ "path" \notin DOMAIN DijkstraNow =>
                    /\ DijkstraNow.logs[Len(DijkstraNow.logs)] = <<"dijkstra.unreachable">>
                    /\ BellmanFordNow.logs[Len(BellmanFordNow.logs)] = <<"bf.unreachable">>

\* a two-link route beats the direct link, and a third node stays unreachable or not
C2_Witness ==
    /\ ran = "DIJKSTRA"
    /\ ~hasNegativeWeight(graph)
    /\ endId # Null
    /\ "path" \in DOMAIN result
    /\ Len(result.path) = 3
    /\ Arc(graph, startId, endId)

\* least weight of a link from u to v (only read where such a link exists)
MinWeight(g, u, v) ==
    LET ws == {g.links[i].weight :
                  i \in {j \in 1..Len(g.links) :
                           g.links[j].source = u /\ g.links[j].target = v}}
    IN  CHOOSE w \in ws : \A x \in ws : w <= x

RECURSIVE CycleWeight(_, _, _)
\* total weight of the cheapest links along the closed walk c[1] -> ... -> c[k] -> c[1]
CycleWeight(g, c, k) ==
    IF k > Len(c) THEN 0
    ELSE MinWeight(g, c[k], c[(k % Len(c)) + 1]) + CycleWeight(g, c, k + 1)

\* a directed cycle of negative total weight with a node reachable from s
HasReachableNegativeCycle(g, s) ==
    \E c \in SeqsUpTo(NodeSet(g), Len(g.nodes)) :
        /\ Len(c) >= 1
        /\ NoDup(c)
        /\ c[1] \in ReachableFrom(g, s)
        /\ \A k \in 1..Len(c) :
              \E i \in 1..Len(g.links) :
                  g.links[i].source = c[k] /\ g.links[i].target = c[(k % Len(c)) + 1]
        /\ CycleWeight(g, c, 1) < 0

(***************************************************************************)
(* C3: on a directed graph with a negative-weight cycle reachable from the *)
(* start node, runBellmanFord ends with the negative-cycle step as its     *)
(* last step and returns neither `path` nor `mstLinks`, with or without an *)
(* end id.                                                                 *)
(***************************************************************************)
C3_NegativeCycleReported ==
    (ran = "BELLMAN_FORD" /\ graph.isDirected
        /\ HasReachableNegativeCycle(graph, startId)) =>
        /\ result.steps[Len(result.steps)].log = <<"bf.negativeCycle">>
        /\ "path" \notin DOMAIN result
        /\ "mstLinks" \notin DOMAIN result

\* a negative cycle that is not at the start node, and an end id that lies on it
C3_Witness ==
    /\ ran = "BELLMAN_FORD"
    /\ graph.isDirected
    /\ HasReachableNegativeCycle(graph, startId)
    /\ ~HasReachableNegativeCycle([graph EXCEPT !.links = SubSeq(@, 2, Len(@))], startId)
    /\ endId # Null
    /\ endId # startId
    /\ result.steps[Len(result.steps)].log = <<"bf.negativeCycle">>

RECURSIVE SumWeights(_)
SumWeights(ls) == IF ls = <<>> THEN 0 ELSE Head(ls).weight + SumWeights(Tail(ls))

\* the index sets of the links of g that form a spanning tree of g
SpanningTrees(g) ==
    {T \in SUBSET (1..Len(g.links)) :
        /\ Cardinality(T) = Len(g.nodes) - 1
        /\ ComponentOf([g EXCEPT !.links = [k \in 1..Cardinality(T) |->
                                               g.links[SortedSeqOf(T)[k]]]],
                       g.nodes[1]) = NodeSet(g)}

TreeWeight(g, T) == SumWeights([k \in 1..Cardinality(T) |-> g.links[SortedSeqOf(T)[k]]])

IsConnected(g) == ComponentOf(g, g.nodes[1]) = NodeSet(g)

PrimNow == IF ran = "PRIM" THEN result ELSE runPrim(graph)

KruskalNow == IF ran = "KRUSKAL" THEN result ELSE runKruskal(graph)

(***************************************************************************)
(* C4: on a connected undirected graph the mstLinks of runPrim and of      *)
(* runKruskal have the same total weight, each has |V|-1 edges, and that   *)
(* total is the least total weight of any spanning tree of the graph.      *)
(***************************************************************************)
C4_PrimKruskalMinimum ==
    (ran \in {"PRIM", "KRUSKAL"} /\ ~graph.isDirected /\ IsConnected(graph)) =>
        /\ SumWeights(PrimNow.mstLinks) = SumWeights(KruskalNow.mstLinks)
        /\ Len(PrimNow.mstLinks) = Len(graph.nodes) - 1
        /\ Len(KruskalNow.mstLinks) = Len(graph.nodes) - 1
        /\ \A T \in SpanningTrees(graph) :
              SumWeights(result.mstLinks) <= TreeWeight(graph, T)
        /\ \E T \in SpanningTrees(graph) :
              SumWeights(result.mstLinks) = TreeWeight(graph, T)

\* a triangle whose dearest link is the first one listed
C4_Witness ==
    /\ ran \in {"PRIM", "KRUSKAL"}
    /\ ~graph.isDirected
    /\ IsConnected(graph)
    /\ Len(graph.links) = 3
    /\ Cardinality(SpanningTrees(graph)) = 3
    /\ graph.links[1].weight > graph.links[2].weight
    /\ SumWeights(result.mstLinks) < SumWeights(graph.links) - graph.links[2].weight

\* the capacity the data model gives a link: `capacity`, or `weight` when absent
TrueCapacity(l) == IF "capacity" \in DOMAIN l THEN l.capacity ELSE l.weight

RECURSIVE CutCapacity(_, _, _)
\* total capacity of the links that leave S (that cross it, when undirected)
CutCapacity(g, S, i) ==
    IF i > Len(g.links) THEN 0
    ELSE LET l == g.links[i]
             crosses == \/ l.source \in S /\ l.target \notin S
                        \/ ~g.isDirected /\ l.target \in S /\ l.source \notin S
         IN  (IF crosses THEN TrueCapacity(l) ELSE 0) + CutCapacity(g, S, i + 1)

MinCut(g, s, t) ==
    LET cuts == {CutCapacity(g, S \cup {s}, 1) : S \in SUBSET (NodeSet(g) \ {s, t})}
    IN  CHOOSE c \in cuts : \A d \in cuts : c <= d

(***************************************************************************)
(* C5: for non-negative integer capacities and distinct source and sink,   *)
(* the maxFlow returned by runFordFulkerson equals the capacity of a       *)
(* minimum source-sink cut of the graph.                                   *)
(***************************************************************************)
C5_MaxFlowIsMinCut ==
    ran = "FORD_FULKERSON" => result.maxFlow = MinCut(graph, startId, endId)

RECURSIVE SumOver(_, _)
SumOver(f, K) ==
    IF K = {} THEN 0
    ELSE LET k == CHOOSE x \in K : TRUE IN f[k] + SumOver(f, K \ {k})

\* flow of the entries of fd that leave n, less the flow of those that enter it
NetOut(fd, n) ==
    SumOver(fd, {k \in DOMAIN fd : k[1] = n}) - SumOver(fd, {k \in DOMAIN fd : k[2] = n})

(***************************************************************************)
(* C6: in the final flowDetails of runFordFulkerson every node other than  *)
(* the source and the sink has as much flow entering as leaving, and the   *)
(* net flow leaving the source is the returned maxFlow.                    *)
(***************************************************************************)
C6_FlowConservation ==
    ran = "FORD_FULKERSON" =>
        /\ \A n \in NodeSet(graph) \ {startId, endId} : NetOut(result.flowDetails, n) = 0
        /\ NetOut(result.flowDetails, startId) = result.maxFlow

OutDeg(g, n) == Cardinality({i \in 1..Len(g.links) : g.links[i].source = n})

InDeg(g, n) == Cardinality({i \in 1..Len(g.links) : g.links[i].target = n})

OddNodes(g) == {n \in NodeSet(g) : (OutDeg(g, n) + InDeg(g, n)) % 2 = 1}

SurplusNodes(g) == {n \in NodeSet(g) : OutDeg(g, n) = InDeg(g, n) + 1}

DeficitNodes(g) == {n \in NodeSet(g) : InDeg(g, n) = OutDeg(g, n) + 1}

BalancedNodes(g) == {n \in NodeSet(g) : OutDeg(g, n) = InDeg(g, n)}

\* the Eulerian degree precondition
DegreePrecondition(g) ==
    IF g.isDirected
    THEN \/ BalancedNodes(g) = NodeSet(g)
         \/ /\ Cardinality(SurplusNodes(g)) = 1
            /\ Cardinality(DeficitNodes(g)) = 1
            /\ BalancedNodes(g) \cup SurplusNodes(g) \cup DeficitNodes(g) = NodeSet(g)
    ELSE Cardinality(OddNodes(g)) \in {0, 2}

\* where a walk may begin: anywhere for a circuit, else at the node the degrees name
FeasibleStarts(g) ==
    IF g.isDirected
    THEN IF SurplusNodes(g) = {} THEN NodeSet(g) ELSE SurplusNodes(g)
    ELSE IF OddNodes(g) = {} THEN NodeSet(g) ELSE OddNodes(g)

\* path walks the graph using every link exactly once
IsEulerWalk(g, path) ==
    LET E == 1..Len(g.links) IN
    /\ Len(path) = Len(g.links) + 1
    /\ \E f \in [E -> E] :
          /\ \A i, j \in E : f[i] = f[j] => i = j
          /\ \A k \in E :
                LET l == g.links[f[k]] IN
                \/ l.source = path[k] /\ l.target = path[k + 1]
                \/ ~g.isDirected /\ l.target = path[k] /\ l.source = path[k + 1]

EulerWalkReturned(g, r) ==
    /\ "path" \in DOMAIN r
    /\ r.path # <<>>
    /\ r.path[1] \in FeasibleStarts(g)
    /\ IsEulerWalk(g, r.path)

(***************************************************************************)
(* C7: on every graph that meets the Eulerian degree precondition,         *)
(* runFleury returns a path of |E|+1 nodes that begins at a feasible start *)
(* node, follows a link of the graph at every step and uses every link     *)
(* exactly once.                                                           *)
(***************************************************************************)
C7_FleuryEulerWalk ==
    (ran = "FLEURY" /\ DegreePrecondition(graph)) => EulerWalkReturned(graph, result)

(***************************************************************************)
(* C8: on every graph that meets the Eulerian degree precondition,         *)
(* runHierholzer returns a path of |E|+1 nodes that begins at a feasible   *)
(* start node, follows a link of the graph at every step and uses every    *)
(* link exactly once.                                                      *)
(***************************************************************************)
C8_HierholzerEulerWalk ==
    (ran = "HIERHOLZER" /\ DegreePrecondition(graph)) => EulerWalkReturned(graph, result)

(***************************************************************************)
(* C9: runFleury and runHierholzer reject every graph that violates the    *)
(* degree precondition, and the rejected result carries one explanatory    *)
(* log and empty steps, and no path and no visited.                        *)
(***************************************************************************)
C9_ViolationRejected ==
    (ran \in {"FLEURY", "HIERHOLZER"} /\ ~DegreePrecondition(graph)) =>
        /\ DOMAIN result = {"logs", "steps"}
        /\ Len(result.logs) = 1
        /\ result.steps = <<>>

\* runFleury has rejected an undirected graph with four nodes of odd degree,
\* and runHierholzer rejects it too
C9_Witness ==
    /\ ran = "FLEURY"
    /\ ~graph.isDirected
    /\ Cardinality(OddNodes(graph)) = 4
    /\ "path" \notin DOMAIN result
    /\ result.steps = <<>>
    /\ runHierholzer(graph).steps = <<>>

\* a split of the nodes in two sides such that every link joins the two sides:
\* there is one exactly when the graph has no cycle of odd length
TwoColourings(g) ==
    {c \in [NodeSet(g) -> {0, 1}] :
        \A i \in 1..Len(g.links) : c[g.links[i].source] # c[g.links[i].target]}

(***************************************************************************)
(* C10: on every graph without a cycle of odd length checkBipartite        *)
(* returns isBipartite = true with zones setA and setB that are disjoint,  *)
(* hold every node exactly once between them, and are joined by every      *)
(* link.                                                                   *)
(***************************************************************************)
C10_EvenGraphsSplit ==
    (ran = "CHECK_BIPARTITE" /\ TwoColourings(graph) # {}) =>
        LET a == result.bipartiteSets.setA
            b == result.bipartiteSets.setB
        IN  /\ result.isBipartite
            /\ NoDup(a \o b)
            /\ Range(a \o b) = NodeSet(graph)
            /\ \A i \in 1..Len(graph.links) :
                  LET l == graph.links[i] IN
                  \/ l.source \in Range(a) /\ l.target \in Range(b)
                  \/ l.source \in Range(b) /\ l.target \in Range(a)

(***************************************************************************)
(* C11: on every graph with a cycle of odd length (a self-loop and a       *)
(* triangle included), in whichever component it lies, checkBipartite      *)
(* returns isBipartite = false.                                            *)
(***************************************************************************)
C11_OddCycleRejected ==
    (ran = "CHECK_BIPARTITE" /\ TwoColourings(graph) = {}) => ~result.isBipartite

\* a triangle without a self-loop, given as a directed graph, has been rejected
C11_Witness ==
    /\ ran = "CHECK_BIPARTITE"
    /\ graph.isDirected
    /\ TwoColourings(graph) = {}
    /\ \A i \in 1..Len(graph.links) : graph.links[i].source # graph.links[i].target
    /\ ~result.isBipartite

\* the links of ls as unordered pairs of endpoints
EndpointSets(ls) == {{ls[i].source, ls[i].target} : i \in 1..Len(ls)}

(***************************************************************************)
(* C12: on the undirected example graph A-B (weight 1), B-C (2), A-C (4),  *)
(* runDijkstra from A to C returns the path A, B, C with cost 3; runPrim   *)
(* and runKruskal each return exactly the links A-B and B-C, of total cost *)
(* 3; with capacities A-B = 5, B-C = 3, A-C = 1 runFordFulkerson from A to *)
(* C returns maxFlow 4.                                                    *)
(***************************************************************************)
C12_ExampleResults ==
    graph \in ExampleGraphs =>
        /\ (ran = "DIJKSTRA" /\ startId = "A" /\ endId = "C") =>
              /\ "path" \in DOMAIN result
              /\ result.path = <<"A", "B", "C">>
              /\ ReportedCost(result) = 3
        /\ ran \in {"PRIM", "KRUSKAL"} =>
              /\ Len(result.mstLinks) = 2
              /\ EndpointSets(result.mstLinks) = {{"A", "B"}, {"B", "C"}}
              /\ SumWeights(result.mstLinks) = 3
              /\ result.logs[Len(result.logs)][2] = 3
        /\ (ran = "FORD_FULKERSON" /\ startId = "A" /\ endId = "C") =>
              result.maxFlow = 4

\* the max flow of the example has been computed on a graph that lists A-C first
C12_Witness ==
    /\ graph \in ExampleGraphs
    /\ EndpointSets(<<graph.links[1]>>) = {{"A", "C"}}
    /\ ran = "FORD_FULKERSON"
    /\ startId = "A"
    /\ endId = "C"
    /\ result.maxFlow = 4

C14_VisitedNeverShrinks ==
    "steps" \in DOMAIN result =>
        \A i, j \in 1..Len(result.steps) :
            (/\ i < j
             /\ "visited" \in DOMAIN result.steps[i]
             /\ "visited" \in DOMAIN result.steps[j]) =>
                Range(result.steps[i].visited) \subseteq Range(result.steps[j].visited)


(***************************************************************************)
(* C15: in every result the arrays `logs` and `steps` have the same length *)
(* and the i-th log line is the `log` of the i-th step.                    *)
(***************************************************************************)
C15_LogsMirrorSteps ==
    ran # "NONE" =>
        /\ "steps" \in DOMAIN result
        /\ Len(result.logs) = Len(result.steps)
        /\ \A i \in 1..Len(result.steps) : result.logs[i] = result.steps[i].log


(***************************************************************************)
(* C16: on every well-formed graph, a graph with no nodes or no links      *)
(* included, each of the ten entry points returns a result object and      *)
(* never throws.                                                           *)
(***************************************************************************)
C16_NeverThrows == ran # "NONE" => result # Thrown


(***************************************************************************)
(* C17: a call whose precondition is violated returns at once with only    *)
(* the explanatory log or step and no computed field (no path, visited,    *)
(* mstLinks, traversedEdges): runDijkstra on a graph with a negative       *)
(* weight and runBellmanFord on an undirected graph with a negative weight *)
(* return exactly one step, which carries the one log line; runPrim and    *)
(* runKruskal on a directed graph return a single log line and no tree.    *)
(***************************************************************************)
SomeWeightNegative == \E l \in Range(graph.links) : l.weight < 0

OnlyTheErrorStep ==
    /\ DOMAIN result = {"logs", "steps"}
    /\ Len(result.logs) = 1
    /\ Len(result.steps) = 1
    /\ DOMAIN result.steps[1] = {"log"}
    /\ result.steps[1].log = result.logs[1]

OnlyTheErrorLine ==
    /\ DOMAIN result = {"logs"}
    /\ Len(result.logs) = 1

C17_ViolationReturnsOnlyTheError ==
    /\ (ran = "DIJKSTRA" /\ SomeWeightNegative) => OnlyTheErrorStep
    /\ (ran = "BELLMAN_FORD" /\ ~graph.isDirected /\ SomeWeightNegative) => OnlyTheErrorStep
    /\ (ran \in {"PRIM", "KRUSKAL"} /\ graph.isDirected) => OnlyTheErrorLine

C17_Witness ==
    /\ ran = "DIJKSTRA"
    /\ graph.isDirected
    /\ Len(graph.links) = MaxLinks
    /\ SomeWeightNegative
    /\ result.steps = <<[log |-> <<"dijkstra.error.negative">>]>>


(***************************************************************************)
(* C18: after any sequence of user actions (run an algorithm, add, move or *)
(* delete a node or a link, edit a weight, toggle directedness, load a     *)
(* file, regenerate or reset the topology, clear the result), a stored     *)
(* result that is not null was computed from the graph currently held in   *)
(* the state.                                                              *)
(***************************************************************************)
C18_ResultOfCurrentGraph == finalResult # NullResult => computedFrom = <<graph>>


\* least weight of a link that can be taken from u to v (read where Arc(g, u, v))
ArcWeight(g, u, v) ==
    LET ws == {g.links[i].weight :
                  i \in {j \in 1..Len(g.links) :
                           \/ g.links[j].source = u /\ g.links[j].target = v
                           \/ ~g.isDirected /\ g.links[j].source = v
                              /\ g.links[j].target = u}}
    IN  CHOOSE w \in ws : \A x \in ws : w <= x

RECURSIVE WalkWeight(_, _, _)
\* total weight of the walk p[k], ..., p[Len(p)] along its cheapest links
WalkWeight(g, p, k) ==
    IF k >= Len(p) THEN 0 ELSE ArcWeight(g, p[k], p[k + 1]) + WalkWeight(g, p, k + 1)

\* the node sequences from s to e without a repeated node whose consecutive nodes are
\* joined by a link, taken in its direction when g is directed
SimplePaths(g, s, e) ==
    {p \in SeqsUpTo(NodeSet(g), Len(g.nodes)) :
        /\ Len(p) >= 1
        /\ p[1] = s
        /\ p[Len(p)] = e
        /\ NoDup(p)
        /\ \A k \in 1..(Len(p) - 1) : Arc(g, p[k], p[k + 1])}

(***************************************************************************)
(* C19: on a graph without a negative weight, runDijkstra called with an   *)
(* end id that can be reached from the start returns a path that begins at *)
(* the start, ends at the end, repeats no node, joins consecutive nodes by *)
(* links (in their direction when the graph is directed) and has the least *)
(* total weight of all such paths; when the end cannot be reached the      *)
(* result has no `path`.                                                   *)
(***************************************************************************)
C19_DijkstraPathIsShortest ==
    (ran = "DIJKSTRA" /\ ~SomeWeightNegative /\ endId # Null) =>
        IF endId \in ReachableFrom(graph, startId)
        THEN /\ "path" \in DOMAIN result
             /\ result.path \in SimplePaths(graph, startId, endId)
             /\ \A p \in SimplePaths(graph, startId, endId) :
                    WalkWeight(graph, result.path, 1) <= WalkWeight(graph, p, 1)
        ELSE "path" \notin DOMAIN result

\* the direct link costs 3, the way round costs 2
C19_Witness ==
    /\ ran = "DIJKSTRA"
    /\ ~SomeWeightNegative
    /\ endId # Null
    /\ "path" \in DOMAIN result
    /\ Len(result.path) = 3
    /\ Arc(graph, startId, endId)
    /\ ArcWeight(graph, startId, endId) = 3
    /\ WalkWeight(graph, result.path, 1) = 2

\* an end id that the start cannot reach
C19_UnreachableWitness ==
    /\ ran = "DIJKSTRA"
    /\ ~SomeWeightNegative
    /\ endId # Null
    /\ endId \notin ReachableFrom(graph, startId)
    /\ "path" \notin DOMAIN result


\* the indices of graph.links by ascending weight, equal weights in their original order
AscendingOrder ==
    CHOOSE p \in [1..Len(graph.links) -> 1..Len(graph.links)] :
        \A a, b \in 1..Len(graph.links) :
            a < b => \/ graph.links[p[a]].weight < graph.links[p[b]].weight
                     \/ /\ graph.links[p[a]].weight = graph.links[p[b]].weight
                        /\ p[a] < p[b]

\* u and v are joined by a chain of the given links
JoinedBy(links, u, v) ==
    v \in ComponentOf([nodes |-> graph.nodes, links |-> links, isDirected |-> FALSE], u)

\* the k-th link in ascending order, its 'under evaluation' step and the one after it
KruskalPairOk(k) ==
    LET link == graph.links[AscendingOrder[k]]
        before == result.steps[2 * k - 1]
        check == result.steps[2 * k]
        verdict == result.steps[2 * k + 1]
    IN  /\ check.log[1] = "kruskal.check"
        /\ check.currentLinkId = [source |-> link.source, target |-> link.target]
        /\ check.mstLinks = before.mstLinks
        /\ check.visited = before.visited
        /\ verdict.log[1] \in {"kruskal.accept", "kruskal.reject"}
        /\ (verdict.log[1] = "kruskal.accept")
              = ~JoinedBy(check.mstLinks, link.source, link.target)
        /\ verdict.log[1] = "kruskal.accept" =>
              /\ verdict.mstLinks = Append(check.mstLinks, link)
              /\ Range(verdict.visited)
                    = Range(check.visited) \cup {link.source, link.target}
        /\ verdict.log[1] = "kruskal.reject" =>
              /\ verdict.mstLinks = check.mstLinks
              /\ verdict.visited = check.visited

(***************************************************************************)
(* C20: runKruskal goes through the links in ascending order of weight,    *)
(* equal weights in their original order, and emits exactly two steps for  *)
(* each link: an 'under evaluation' step whose currentLinkId is that link, *)
(* then an 'accepted' step, exactly when the endpoints are in different    *)
(* union-find sets (the link is appended to mstLinks and both endpoints    *)
(* join visited), or else a 'rejected' step (mstLinks and visited          *)
(* unchanged).                                                             *)
(***************************************************************************)
C20_KruskalStepPairs ==
    (ran = "KRUSKAL" /\ ~graph.isDirected) =>
        /\ Len(result.steps) = 2 * Len(graph.links) + 2
        /\ \A k \in 1..Len(graph.links) : KruskalPairOk(k)

\* three links, the heaviest first in graph.links, two of equal weight, one rejected
C20_Witness ==
    /\ ran = "KRUSKAL"
    /\ ~graph.isDirected
    /\ Len(graph.links) = 3
    /\ graph.links[1].weight = 3
    /\ graph.links[2].weight = 1
    /\ graph.links[3].weight = 1
    /\ Len(result.steps) = 8
    /\ result.steps[3].log = <<"kruskal.accept">>
    /\ result.steps[5].log = <<"kruskal.accept">>
    /\ result.steps[7].log = <<"kruskal.reject">>
    /\ result.steps[6].currentLinkId
          = [source |-> graph.links[1].source, target |-> graph.links[1].target]

\* the component of nodes[0] as a graph of its own
StartComponentGraph(g) ==
    [nodes |-> SelectSeq(g.nodes, LAMBDA n : n \in ComponentOf(g, g.nodes[1])),
     links |-> SelectSeq(g.links, LAMBDA l : l.source \in ComponentOf(g, g.nodes[1])),
     isDirected |-> FALSE]

\* some step of the result carries the warning about the disconnected graph
PrimWarningStep ==
    \E i \in 1..Len(result.steps) : result.steps[i].log = <<"prim.warning.disconnected">>

\* mstLinks is a minimum spanning tree of the component of nodes[0], visited is that
\* component
PrimForestOfStartComponent ==
    LET c == StartComponentGraph(graph) IN
    /\ "mstLinks" \in DOMAIN result
    /\ Range(result.visited) = NodeSet(c)
    /\ NoDup(result.visited)
    /\ Len(result.mstLinks) = Len(c.nodes) - 1
    /\ \A l \in Range(result.mstLinks) : Joined(c, l.source, l.target)
    /\ ComponentOf([c EXCEPT !.links = result.mstLinks], c.nodes[1]) = NodeSet(c)
    /\ \A T \in SpanningTrees(c) : SumWeights(result.mstLinks) <= TreeWeight(c, T)
    /\ \E T \in SpanningTrees(c) : SumWeights(result.mstLinks) = TreeWeight(c, T)

(***************************************************************************)
(* C21: on a disconnected undirected graph runPrim does not fail: it stops *)
(* when no node outside the tree has a finite key, emits a warning step    *)
(* for the disconnected graph, and returns as mstLinks a minimum spanning  *)
(* tree of the component of the start node (nodes[0]), with visited        *)
(* exactly that component.                                                 *)
(***************************************************************************)
C21_PrimOnDisconnected ==
    (ran = "PRIM" /\ ~graph.isDirected /\ ~IsConnected(graph)) =>
        /\ result # Thrown
        /\ PrimForestOfStartComponent
        /\ PrimWarningStep

\* link i is the only link of the graph between its two endpoints
OnlyLinkOfItsPair(i) ==
    \A j \in 1..Len(graph.links) :
        j # i => {graph.links[j].source, graph.links[j].target}
                    # {graph.links[i].source, graph.links[i].target}

(***************************************************************************)
(* C22: for every link and every numeric capacity value, the capacity that *)
(* runFordFulkerson uses for the link (its initial forward residual, the   *)
(* reverse residual when undirected, and the capacity that flowDetails is  *)
(* measured against) is link.capacity whenever `capacity` is present on    *)
(* the link and link.weight only when it is absent; the adjacency view of  *)
(* getAdjacencyList carries the same capacity.                             *)
(***************************************************************************)
C22_CapacityWhenPresent ==
    ran = "FORD_FULKERSON" =>
        \A i \in 1..Len(graph.links) :
            LET l == graph.links[i]
                rGraph == InitResidual(graph, 1, <<>>)
            IN  OnlyLinkOfItsPair(i) =>
                    /\ rGraph[<<l.source, l.target>>] = TrueCapacity(l)
                    /\ ~graph.isDirected =>
                          rGraph[<<l.target, l.source>>] = TrueCapacity(l)
                    /\ result.flowDetails[<<l.source, l.target>>] <= TrueCapacity(l)
                    /\ \E e \in Range(getAdjacencyList(graph)[l.source]) :
                          e.node = l.target /\ e.capacity = TrueCapacity(l)

\* number of traversed edges a step carries (the initial step carries none)
EdgesAt(i) ==
    IF "traversedEdges" \in DOMAIN result.steps[i]
    THEN Len(result.steps[i].traversedEdges) ELSE 0

\* step i is where a neighbour is discovered: it carries one more traversed edge
\* than the step before it
IsDiscoveryStep(i) == i > 1 /\ EdgesAt(i) = EdgesAt(i - 1) + 1

\* a discovery step is a step of its own, after the visit of the node the edge
\* leaves, and names the new edge
DiscoveryStepOk(i) ==
    LET step == result.steps[i]
        edge == step.traversedEdges[Len(step.traversedEdges)]
    IN  /\ step.visited = result.steps[i - 1].visited
        /\ "currentLinkId" \in DOMAIN step
        /\ step.currentLinkId = [source |-> edge.source, target |-> edge.target]

(***************************************************************************)
(* C23: runBFS and runDFS each emit exactly one step per node visitation   *)
(* and one separate step per edge relaxation (the first time a neighbour   *)
(* is discovered): besides the initial step, the number of steps is the    *)
(* number of visited nodes plus the number of traversedEdges, and each     *)
(* edge-discovery step has currentLinkId set to the newly discovered edge. *)
(***************************************************************************)
C23_StepPerVisitAndPerEdge ==
    ran \in {"BFS", "DFS"} =>
        /\ Len(result.steps) = 1 + Len(result.visited) + Len(result.traversedEdges)
        /\ \A i \in 1..Len(result.steps) : IsDiscoveryStep(i) => DiscoveryStepOk(i)

\* steps i and j both carry the field and what step i holds of it is still in step j
KeptIn(i, j, field) ==
    (field \in DOMAIN result.steps[i] /\ field \in DOMAIN result.steps[j]) =>
        IF field = "bipartiteSets"
        THEN /\ Range(result.steps[i][field].setA) \subseteq Range(result.steps[j][field].setA)
             /\ Range(result.steps[i][field].setB) \subseteq Range(result.steps[j][field].setB)
        ELSE Range(result.steps[i][field]) \subseteq Range(result.steps[j][field])

(***************************************************************************)
(* C24: in the steps returned by any algorithm the edge-set and zone       *)
(* fields are cumulative: for any two steps i < j that both carry          *)
(* traversedEdges (or both mstLinks, or both bipartiteSets), every edge    *)
(* (or zone member) present in step i is still present in step j.          *)
(***************************************************************************)
C24_EdgeSetsCumulative ==
    "steps" \in DOMAIN result =>
        \A i, j \in 1..Len(result.steps) :
            i < j => \A field \in {"traversedEdges", "mstLinks", "bipartiteSets"} :
                        KeptIn(i, j, field)

RECURSIVE ResidualTrace(_, _, _, _)
\* the residual graphs of runFordFulkerson, one per evaluation of "while (bfs())"
ResidualTrace(g, s, t, st) ==
    LET b == FlowBfs(g, s, t, st) IN
    IF ~b.found THEN <<st.rGraph>>
    ELSE LET path == AugmentingPath(b.parent, s, t, <<t>>)
             pathFlow == PathFlow(b.rGraph, path, 1)
         IN  <<st.rGraph>> \o
             ResidualTrace(g, s, t,
                [b EXCEPT !.rGraph = Augment(b.rGraph, path, Len(path) - 1, pathFlow)])

Residuals ==
    ResidualTrace(graph, startId, endId,
        [rGraph |-> InitResidual(graph, 1, <<>>), parent |-> <<>>, maxFlow |-> 0,
         queue |-> <<>>, visited |-> <<>>, found |-> FALSE, logs |-> <<>>,
         steps |-> <<>>])

ResidualsNonNegative ==
    \A k \in 1..Len(Residuals) : \A e \in DOMAIN Residuals[k] : Residuals[k][e] >= 0

\* every entry of a step's flowDetails lies between 0 and the capacity of each
\* link it is the flow of (either direction of an undirected link)
FlowsWithinCapacity ==
    \A i \in 1..Len(result.steps) :
        \A e \in DOMAIN result.steps[i].flowDetails :
            /\ result.steps[i].flowDetails[e] >= 0
            /\ \A k \in 1..Len(graph.links) :
                   (\/ e = <<graph.links[k].source, graph.links[k].target>>
                    \/ (~graph.isDirected
                        /\ e = <<graph.links[k].target, graph.links[k].source>>))
                   => result.steps[i].flowDetails[e] <= TrueCapacity(graph.links[k])

OneDirectionPerUndirectedEdge ==
    ~graph.isDirected =>
        \A i \in 1..Len(result.steps) :
            \A e \in DOMAIN result.steps[i].flowDetails :
                (<<e[2], e[1]>> \in DOMAIN result.steps[i].flowDetails /\ e[1] # e[2])
                => ~(result.steps[i].flowDetails[e] > 0
                     /\ result.steps[i].flowDetails[<<e[2], e[1]>>] > 0)

ResidualPairSums ==
    ~graph.isDirected =>
        \A k \in 1..Len(Residuals) : \A n \in 1..Len(graph.links) :
            Residuals[k][<<graph.links[n].source, graph.links[n].target>>]
            + Residuals[k][<<graph.links[n].target, graph.links[n].source>>]
            = 2 * TrueCapacity(graph.links[n])

(***************************************************************************)
(* C25: throughout runFordFulkerson on non-negative capacities every       *)
(* residual is at least 0 and, in the flowDetails of every step, each      *)
(* edge's flow lies between 0 and its capacity; on an undirected graph at  *)
(* most one of the two direction entries of an edge is positive and the    *)
(* two residuals of an edge always add up to twice its capacity.           *)
(***************************************************************************)
C25_ResidualsAndFlowsInRange ==
    ran = "FORD_FULKERSON" =>
        /\ ResidualsNonNegative
        /\ FlowsWithinCapacity
        /\ OneDirectionPerUndirectedEdge
        /\ ResidualPairSums

\* the steps of the result that announce a bottleneck, one per augmentation, in order
BottleneckSteps ==
    SelectSeq(result.steps, LAMBDA st : st.log[1] = "flow.bottleneck")

ResidualArc(r, u, v) == <<u, v>> \in DOMAIN r /\ r[<<u, v>>] > 0

RECURSIVE ResidualHops(_, _, _, _)
\* number of edges of a shortest path of positive residuals from the set S to t
ResidualHops(r, S, t, n) ==
    IF t \in S THEN n
    ELSE LET next == S \cup {v \in Range(graph.nodes) :
                                \E u \in S : ResidualArc(r, u, v)}
         IN  IF next = S THEN Infinity ELSE ResidualHops(r, next, t, n + 1)

RECURSIVE SumOfBottlenecks(_)
SumOfBottlenecks(k) ==
    IF k = 0 THEN 0 ELSE BottleneckSteps[k].log[2] + SumOfBottlenecks(k - 1)

\* the k-th augmenting path against the residual graph it was searched in
AugmentationOk(k) ==
    LET path == BottleneckSteps[k].path
        r == Residuals[k]
        bottleneck == BottleneckSteps[k].log[2]
    IN  /\ Len(path) >= 2 /\ path[1] = startId /\ path[Len(path)] = endId
        /\ NoDup(path)
        /\ \A n \in 1..(Len(path) - 1) : ResidualArc(r, path[n], path[n + 1])
        /\ Len(path) - 1 = ResidualHops(r, {startId}, endId, 0)
        /\ \A n \in 1..(Len(path) - 1) : bottleneck <= r[<<path[n], path[n + 1]>>]
        /\ \E n \in 1..(Len(path) - 1) : bottleneck = r[<<path[n], path[n + 1]>>]
        /\ bottleneck > 0

(***************************************************************************)
(* C26: every augmenting path found by the residual breadth-first search   *)
(* is a simple path from the source to the sink whose residuals are all    *)
(* positive, with the fewest edges of any such path; its bottleneck, the   *)
(* least residual on it, is positive, so maxFlow grows with every          *)
(* augmentation, and the loop ends after at most maxFlow augmentations     *)
(* with the saturation and result steps.                                   *)
(***************************************************************************)
C26_ShortestAugmentingPaths ==
    ran = "FORD_FULKERSON" =>
        /\ Len(BottleneckSteps) = Len(Residuals) - 1
        /\ \A k \in 1..Len(BottleneckSteps) : AugmentationOk(k)
        /\ result.maxFlow = SumOfBottlenecks(Len(BottleneckSteps))
        /\ Len(BottleneckSteps) <= result.maxFlow
        /\ result.steps[Len(result.steps)].log = <<"flow.result", result.maxFlow>>

\* two augmentations, the second one along a path of two edges
C26_Witness ==
    /\ ran = "FORD_FULKERSON"
    /\ Len(BottleneckSteps) = 2
    /\ Len(BottleneckSteps[2].path) = 3
    /\ BottleneckSteps[2].log[2] < Residuals[2][<<startId, BottleneckSteps[2].path[2]>>]

\* the undirected graph on the nodes of the graph with the given links only
OnLinks(links) == [nodes |-> graph.nodes, links |-> links, isDirected |-> FALSE]

\* a list of links without a cycle: every link joins two components into one
IsForest(links) ==
    Len(links) = Cardinality(NodeSet(graph))
                 - Cardinality({ComponentOf(OnLinks(links), n) : n \in NodeSet(graph)})

(***************************************************************************)
(* C27: at every step of runKruskal the mstLinks form a forest (no cycle)  *)
(* of at most |V|-1 edges, and in the returned mstLinks two nodes are      *)
(* connected exactly when they are connected in the undirected graph.      *)
(***************************************************************************)
C27_KruskalForestSpans ==
    (ran = "KRUSKAL" /\ ~graph.isDirected) =>
        /\ \A i \in 1..Len(result.steps) :
               /\ IsForest(result.steps[i].mstLinks)
               /\ Len(result.steps[i].mstLinks) <= Len(graph.nodes) - 1
        /\ \A u, v \in NodeSet(graph) :
               JoinedBy(result.mstLinks, u, v) <=> v \in ComponentOf(graph, u)

\* a triangle: the third link would close a cycle and is left out
C27_Witness ==
    /\ ran = "KRUSKAL"
    /\ ~graph.isDirected
    /\ Len(graph.links) = 3
    /\ Len(result.mstLinks) = 2
    /\ \A u, v \in NodeSet(graph) : u # v => Joined(graph, u, v)

\* a disconnected graph: the returned forest leaves a node apart
C27_ForestWitness ==
    /\ ran = "KRUSKAL"
    /\ ~graph.isDirected
    /\ Len(result.mstLinks) = 1
    /\ ~IsConnected(graph)

RECURSIVE Hops(_, _, _, _)
\* number of links of a shortest walk, along Arc, from the set S to v
Hops(g, S, v, n) ==
    IF v \in S THEN n
    ELSE LET next == S \cup {y \in NodeSet(g) : \E x \in S : Arc(g, x, y)}
         IN  IF next = S THEN Infinity ELSE Hops(g, next, v, n + 1)

\* position of a node in the visiting order
VisitIndex(n) == CHOOSE i \in 1..Len(result.visited) : result.visited[i] = n

IsLinkOfGraph(e) ==
    \E k \in 1..Len(graph.links) :
        /\ graph.links[k].weight = e.weight
        /\ \/ graph.links[k].source = e.source /\ graph.links[k].target = e.target
           \/ /\ ~graph.isDirected
              /\ graph.links[k].source = e.target /\ graph.links[k].target = e.source

LastStep == result.steps[Len(result.steps)]

CumulativeFields == {"visited", "traversedEdges", "mstLinks", "flowDetails", "bipartiteSets"}

(***************************************************************************)
(* C29: for runBFS, runDFS, runPrim, runKruskal, runFordFulkerson and      *)
(* checkBipartite the last step carries the final state: every cumulative  *)
(* field present in it (visited, traversedEdges, mstLinks, flowDetails,    *)
(* bipartiteSets) equals the field of the same name of the returned        *)
(* result.                                                                 *)
(***************************************************************************)
C29_LastStepIsFinalState ==
    (/\ ran \in {"BFS", "DFS", "PRIM", "KRUSKAL", "FORD_FULKERSON", "CHECK_BIPARTITE"}
     /\ "steps" \in DOMAIN result
     /\ result.steps # <<>>) =>
        \A field \in CumulativeFields \cap DOMAIN LastStep :
            /\ field \in DOMAIN result
            /\ result[field] = LastStep[field]

\* a breadth-first run over three nodes whose last step carries both lists
C29_Witness ==
    /\ ran = "BFS"
    /\ Len(result.visited) = 3
    /\ Len(result.traversedEdges) = 2
    /\ {"visited", "traversedEdges"} \subseteq DOMAIN LastStep

\* a flow run whose last step carries a flow map with a positive entry
C29_FlowWitness ==
    /\ ran = "FORD_FULKERSON"
    /\ "flowDetails" \in DOMAIN LastStep
    /\ \E e \in DOMAIN result.flowDetails : result.flowDetails[e] > 0

StepInRange ==
    HasSteps(finalResult) =>
        (0 <= stepIndex /\ stepIndex <= Len(finalResult.steps) - 1)

\* a timer tick keeps stepIndex on a step and, on the last step, stops the playback
TickStopsAtLast ==
    TimerTick =>
        /\ stepIndex' <= Len(finalResult.steps) - 1
        /\ stepIndex = Len(finalResult.steps) - 1 =>
               (~isPlaying' /\ stepIndex' = stepIndex)

(***************************************************************************)
(* C30: in the playback state machine, whenever finalResult has a          *)
(* non-empty steps list, 0 <= stepIndex <= steps.length - 1 after any      *)
(* interleaving of timer ticks and user actions (first, previous,          *)
(* play/pause, next, last, run algorithm, clear result, graph edit, file   *)
(* load); a timer tick never moves stepIndex past the last step and, once  *)
(* the last step is reached, sets isPlaying to false.                      *)
(***************************************************************************)
C30_PlaybackStaysInRange == []StepInRange /\ [][TickStopsAtLast]_vars

\* a second run whose playback has come to rest on the last of several steps
C30_Witness ==
    /\ runs = 2
    /\ HasSteps(finalResult)
    /\ Len(finalResult.steps) >= 2
    /\ stepIndex = Len(finalResult.steps) - 1
    /\ ~isPlaying

==============================================================================
